---- MODULE Spec2Model ----
(***************************************************************************)
(* Verification model of the Path-Tracer renderer.                         *)
(*                                                                         *)
(*   Spec        the thread-pool render of main(): row tasks submitted to  *)
(*               dp::thread_pool, workers polling the queue, the main      *)
(*               thread waiting on the futures and serialising the pixels. *)
(*   SpecRng     the random-number generators the workers touch while they *)
(*               are inside sumColour (the body of one WorkerPixel step).  *)
(*   SpecHit     HittableList::isHit scanning a list of spheres, with      *)
(*               Sphere::isHit computed in exact rational arithmetic.      *)
(*   SpecSphere  one call of Sphere::isHit.                                *)
(*   SpecTrace   calcColour and its recursion.                             *)
(*   SpecScatter the constructors and isScattered of the materials.        *)
(*   SpecSplit   the per-pixel split of the rays over threads, and         *)
(*               writeColour.                                              *)
(*   SpecCamera  Camera::setupCamera and Camera::getCurrentRay.            *)
(*   SpecScene   the random sphere generation of main().                   *)
(*   SpecFrame   the scene and the camera over one render.                 *)
(*   SpecPool    dp::thread_pool under several submitters, and its         *)
(*               destructor (SpecPoolFair: under fair scheduling).         *)
(***************************************************************************)
EXTENDS Integers, Sequences, FiniteSets, TLC

(***************************************************************************)
(* Bounds of the model.                                                    *)
(***************************************************************************)
\* outImageWidth and outImageHeight of the render (400 x 225 by default).
Width == 2
Height == 3
\* Largest value std::thread::hardware_concurrency() is taken to return.
MaxThreads == 2
\* raysPerPixel and materialMaximumDepth of the render (100 and 50 by default).
RaysPerPixel == 1
MaxDepth == 1
\* Largest scene of a hit query, and how far the sphere centres reach.
MaxObjects == 2
ZFar == 5
\* numberOfSpheres of the sphere generation (250 by default).
NumberOfSpheres == 2
\* Most tasks submitted to one thread_pool (one per row in main).
MaxTasks == 2

Rows == 0 .. (Height - 1)
Cols == 0 .. (Width - 1)
Cells == 0 .. (Width * Height - 1)
Threads == 1 .. MaxThreads
Tasks == 1 .. MaxTasks
\* The threads that call thread_pool::submit.
Submitters == {1, 2}

VARIABLES
    \* ---- main() of the thread-pool revision ----
    mainPc,      \* position of the main thread
    j,           \* loop variable of the submission loop
    futures,     \* futures[r]: shared state of the future of row r
    futIdx,      \* index of the future main is waiting on
    pixels,      \* the pixel buffer
    writers,     \* writers[cell]: rows whose task wrote the cell, in order
    output,      \* lines written to outImageStream
    thrown,      \* rows whose task body ended by throwing
    \* ---- dp::thread_pool ----
    m_done,      \* thread_pool::m_done
    m_queue,     \* thread_pool::m_queue (rows of the queued tasks)
    m_threads,   \* number of worker threads (hardware_concurrency())
    joinIdx,     \* destructor: thread being joined
    wpc,         \* wpc[w]: position of worker w in worker_thread()
    current_task,\* current_task[w]: row of the task worker w popped
    i,           \* i[w]: column loop variable of process_row in worker w
    \* ---- random-number generators used inside a row task ----
    rpc,         \* rpc[w]: position of worker w inside sumColour
    raysToCalc,  \* raysToCalc[w]: countdown of sumColour
    inDepth,     \* inDepth[w]: depth argument of the running calcColour
    material,    \* material[w]: material of the sphere the ray hit
    m,           \* VectorFunc.cpp mutex m: 0 or the worker holding it
    inGen,       \* inGen[w]: generator whose state worker w is advancing
    \* ---- HittableList::isHit ----
    inRay,       \* the ray of the query
    m_objectList,\* HittableList::m_objectList
    t_min,       \* lower bound of the query
    t_max,       \* upper bound of the query
    hitPc,       \* position inside HittableList::isHit
    hittable,    \* position of the range-for over m_objectList
    closestSoFar,
    tempRecord,
    inRec,       \* the caller's record
    isHitAnything,
    lastCall,    \* arguments and result of the latest Sphere::isHit call
    \* ---- calcColour ----
    tracePc,     \* position inside the active call of calcColour
    traceDepth,  \* inDepth of the active call
    frames,      \* attenuationColour of each suspended caller, outermost first
    retColour,   \* the colour returned by the call that returned last
    scatterOf,   \* material whose isScattered the active call invoked
    nQueries,    \* scene queries made since the outermost call
    nScatters,   \* isScattered invocations since the outermost call
    firstDepth,  \* inDepth of the outermost call
    \* ---- Material::isScattered ----
    scatterPc,   \* position of the caller: construct, call, returned
    ctorArgs,    \* arguments of the material's constructor
    materialObj, \* the constructed material
    drawn,       \* values the generators return during the call
    scattered,   \* return value and output arguments of isScattered
    \* ---- main() of the revisions that split a pixel's rays ----
    splitPc,     \* position of main within one pixel
    revision,    \* "pool", "thread" (std::thread) or "async" (std::async)
    hardware_concurrency, \* value of std::thread::hardware_concurrency()
    numberOfThreads,
    raysPerPixel,
    raysPerThread,
    sumCalls,    \* sumCalls[s]: the call of sumColour launched s-th
    traced,      \* calls of calcColour made for the pixel
    resultColour,
    written,     \* the three integers writeColour wrote for the pixel
    \* ---- Camera ----
    camPc,       \* position of the caller: construct, ready, called, repeated
    cameraArgs,  \* arguments of the Camera constructor
    simCamera,   \* the members of the constructed camera
    camCall,     \* arguments, lens sample and result of a getCurrentRay call
    camRepeat,   \* lens sample and result of a second call, same arguments
    \* ---- main(): the scene and its use by the row tasks ----
    scenePc,     \* position of main: populating the scene, rendering, ...
    worldObjects,\* HittableList worldObjects (its m_objectList)
    sphereIdx,   \* loop variable i of the sphere generation
    loopCounter,
    randomNumberForMaterial,
    randomNumberForRadius,
    sphereCenter,
    submitted,   \* row tasks submitted to the pool
    finished,    \* row tasks that returned
    retrieved,   \* futures main has got
    rendered,    \* the latest call a row task made on the scene or camera
    \* ---- dp::thread_pool used by any number of submitters ----
    m_mut,       \* ts_queue::m_mut: the thread holding it
    spc,         \* spc[s]: position of submitter s in submit()
    in_val,      \* in_val[s]: the task submitter s is pushing
    created,     \* number of packaged_tasks constructed so far
    pushed,      \* the tasks in the order they entered m_dat
    popped,      \* the tasks in the order try_pop handed them out
    executed,    \* executed[t]: number of times the body of task t ran
    lateRuns,    \* lateRuns[w]: bodies worker w finished after m_done was set
    tryResult    \* tryResult[w]: what the latest try_pop of worker w returned

renderVars == <<mainPc, j, futures, futIdx, pixels, writers, output, thrown,
                m_done, m_queue, m_threads, joinIdx, wpc, current_task, i>>

rngVars == <<rpc, raysToCalc, inDepth, material, m, inGen>>

hitVars == <<inRay, m_objectList, t_min, t_max, hitPc, hittable,
             closestSoFar,
             tempRecord, inRec, isHitAnything, lastCall>>

traceVars == <<tracePc, traceDepth, frames, retColour, scatterOf, nQueries,
               nScatters, firstDepth>>

scatterVars == <<scatterPc, ctorArgs, materialObj, drawn, scattered>>

cameraVars == <<camPc, cameraArgs, simCamera, camCall, camRepeat>>

sceneVars == <<scenePc, worldObjects, sphereIdx, loopCounter,
               randomNumberForMaterial, randomNumberForRadius, sphereCenter,
               submitted, finished, retrieved, rendered>>

splitVars == <<splitPc, revision, hardware_concurrency, numberOfThreads,
               raysPerPixel, raysPerThread, sumCalls, traced, resultColour,
               written>>

poolVars == <<m_mut, spc, in_val, created, pushed, popped, executed, lateRuns,
              tryResult>>

vars == <<renderVars, rngVars, hitVars, traceVars, scatterVars,
         splitVars,
         cameraVars,
         sceneVars,
         poolVars>>

NoTask == -1
\* A default-constructed colour (pixels.resize value-initialises the cells).
ZeroColour == <<-1, -1>>

(***************************************************************************)
(* main(): process_row writes pixel (i, j) to this cell.                   *)
(***************************************************************************)
CellIndexNoWidth(col, row) == (Height - row - 1) + col

CellIndexNoFlip(col, row) == (Width * row) + col

CellIndex(col, row) == (Width * (Height - row - 1)) + col

\* sumColour(i, j, raysPerPixel): the colour sum of pixel (i, j).  The sum
\* itself depends on random samples; it is named by the pixel it belongs to.
sumColour(col, row) == <<col, row>>

(***************************************************************************)
(* std::packaged_task: the shared state after the task body ran.           *)
(***************************************************************************)
TaskOutcomeSwallow(threw) == "ready"

TaskOutcome(threw) == IF threw THEN "exception" ELSE "ready"

(***************************************************************************)
(* std::future::get(): blocks until the shared state is ready.             *)
(***************************************************************************)
FutureUnblockedNoWait(st) == TRUE

FutureUnblocked(st) == st \in {"ready", "exception"}

\* The process is running: neither terminated by an uncaught exception nor
\* returned from main.
Alive == mainPc \notin {"aborted", "exit"}

RenderInit ==
    /\ mainPc = "submit"
    /\ j = 0
    /\ futures = [r \in Rows |-> "none"]
    /\ futIdx = 0
    /\ pixels = [c \in Cells |-> ZeroColour]
    /\ writers = [c \in Cells |-> <<>>]
    /\ output = <<>>
    /\ thrown = {}
    /\ m_done = FALSE
    /\ m_queue = <<>>
    /\ m_threads \in 0 .. MaxThreads
    /\ joinIdx = 1
    /\ wpc = [w \in Threads |-> IF w <= m_threads THEN "loop" ELSE "absent"]
    /\ current_task = [w \in Threads |-> NoTask]
    /\ i = [w \in Threads |-> 0]

\* The worker is not inside a draw from any generator.
NoGenerator == <<"none", 0>>

\* No worker is inside sumColour.
RngIdle ==
    /\ rpc = [w \in Threads |-> "idle"]
    /\ raysToCalc = [w \in Threads |-> 0]
    /\ inDepth = [w \in Threads |-> 0]
    /\ material = [w \in Threads |-> "none"]
    /\ m = 0
    /\ inGen = [w \in Threads |-> NoGenerator]

(***************************************************************************)
(* Exact arithmetic for the geometry.  A double is modelled as a rational  *)
(* <<n, d>> with d > 0 (<<1, 0>> is +infinity); a vector of doubles as     *)
(* [v |-> integer triple, d |-> common positive denominator].              *)
(***************************************************************************)
Rat(n, d) == <<n, d>>
Abs(x) == IF x < 0 THEN -x ELSE x
Infinity == <<1, 0>>
RLess(x, y) == x[1] * y[2] < y[1] * x[2]
REq(x, y) == x[1] * y[2] = y[1] * x[2]
RLeq(x, y) == RLess(x, y) \/ REq(x, y)

QVec(v, d) == [v |-> v, d |-> d]
\* PhysicsVector: innerProduct, lengthSquared, operator-, unary minus
innerProduct(u, v) == u[1] * v[1] + u[2] * v[2] + u[3] * v[3]
lengthSquared(u) == innerProduct(u, u)
Minus(u, v) == <<u[1] - v[1], u[2] - v[2], u[3] - v[3]>>
scaledBy(u, s) == <<u[1] * s, u[2] * s, u[3] * s>>
Plus(u, v) == <<u[1] + v[1], u[2] + v[2], u[3] + v[3]>>
Negated(q) == QVec(scaledBy(q.v, -1), q.d)

\* sqrt of a discriminant that is a perfect square
IsSquare(n) == \E r \in 0 .. n : r * r = n
sqrt(n) == CHOOSE r \in 0 .. n : r * r = n

\* A default-constructed HitRecord, and the record the caller passes in.
NoMaterial == "null"
EmptyRecord ==
    [m_point |-> QVec(<<0, 0, 0>>, 1), m_normal |-> QVec(<<0, 0, 0>>, 1),
     m_materialPtr |-> NoMaterial, m_interval |-> Rat(0, 1),
     m_frontFace |-> FALSE]
CallerRecord == [EmptyRecord EXCEPT !.m_materialPtr = "caller"]
NoCall == [obj |-> 0, t_max |-> Rat(0, 1), hit |-> FALSE]

\* No scene query is in progress.
HitIdle ==
    /\ inRay = [m_origin |-> <<0, 0, 0>>, m_direction |-> <<0, 0, -1>>]
    /\ m_objectList = <<>>
    /\ t_min = Rat(0, 1)
    /\ t_max = Infinity
    /\ hitPc = "idle"
    /\ hittable = 1
    /\ closestSoFar = Infinity
    /\ tempRecord = EmptyRecord
    /\ inRec = CallerRecord
    /\ isHitAnything = FALSE
    /\ lastCall = NoCall

\* colour{ 0, 0, 0 }
BlackAsWhite == QVec(<<1, 1, 1>>, 1)

Black == QVec(<<0, 0, 0>>, 1)

\* No call of calcColour is in progress.
TraceIdle ==
    /\ tracePc = "idle"
    /\ traceDepth = 0
    /\ frames = <<>>
    /\ retColour = Black
    /\ scatterOf = NoMaterial
    /\ nQueries = 0
    /\ nScatters = 0
    /\ firstDepth = 0

\* No material is under construction and no isScattered call is in progress.
NoArgs == [kind |-> "none", inFuzz |-> Rat(0, 1), inIndex |-> Rat(1, 1)]
NoMat ==
    [kind |-> "none", m_albedoColour |-> Black, m_fuzz |-> Rat(0, 1),
     m_refractiveIndex |-> Rat(1, 1)]
NoDraw == [sphere |-> QVec(<<0, 0, 1>>, 1), number |-> Rat(0, 1)]
NoScatter == [ok |-> FALSE]
ScatterIdle ==
    /\ scatterPc = "idle"
    /\ ctorArgs = NoArgs
    /\ materialObj = NoMat
    /\ drawn = NoDraw
    /\ scattered = NoScatter

\* No camera is under construction and no getCurrentRay call was made.
NoCamera == [made |-> FALSE]
NoRayCall == [made |-> FALSE]
CameraIdle ==
    /\ camPc = "idle"
    /\ cameraArgs = NoCamera
    /\ simCamera = NoCamera
    /\ camCall = NoRayCall
    /\ camRepeat = NoRayCall

\* main has not started to build the scene.
NoRender == [op |-> "none"]
SceneIdle ==
    /\ scenePc = "idle"
    /\ worldObjects = <<>>
    /\ sphereIdx = 0
    /\ loopCounter = 0
    /\ randomNumberForMaterial = Rat(0, 1)
    /\ randomNumberForRadius = 0
    /\ sphereCenter = <<0, 0, 0>>
    /\ submitted = 0
    /\ finished = 0
    /\ retrieved = 0
    /\ rendered = NoRender

\* main is not inside the rendering of a pixel.
SplitIdle ==
    /\ splitPc = "idle"
    /\ revision = "pool"
    /\ hardware_concurrency = 0
    /\ numberOfThreads = 0
    /\ raysPerPixel = 0
    /\ raysPerThread = 0
    /\ sumCalls = <<>>
    /\ traced = 0
    /\ resultColour = Black
    /\ written = <<>>

\* Nobody holds the queue mutex.
NoHolder == <<"none", 0>>
\* No thread_pool is used through submit().
PoolIdle ==
    /\ m_mut = NoHolder
    /\ spc = [s \in Submitters |-> "idle"]
    /\ in_val = [s \in Submitters |-> NoTask]
    /\ created = 0
    /\ pushed = <<>>
    /\ popped = <<>>
    /\ executed = [t \in Tasks |-> 0]
    /\ lateRuns = [w \in Threads |-> 0]
    /\ tryResult = [w \in Threads |-> "none"]

Init == RenderInit /\ RngIdle /\ HitIdle /\ TraceIdle /\ ScatterIdle /\ SplitIdle /\ CameraIdle /\ SceneIdle /\ PoolIdle

(***************************************************************************)
(* main()                                                                  *)
(***************************************************************************)
\* futures.push_back(pool.submit(std::bind(process_row, j)))
MainSubmit ==
    /\ mainPc = "submit"
    /\ j < Height
    /\ futures' = [futures EXCEPT ![j] = "pending"]
    /\ m_queue' = Append(m_queue, j)
    /\ j' = j + 1
    /\ mainPc' = IF j + 1 < Height THEN "submit" ELSE "wait"
    /\ UNCHANGED <<thrown, futIdx, pixels, writers, output, m_done, m_threads,
                   joinIdx, wpc, current_task, i>>
    /\ UNCHANGED <<rngVars, hitVars, traceVars, scatterVars,
                   splitVars, cameraVars, sceneVars, poolVars>>

\* fut.get() returns with a value
MainGet ==
    /\ mainPc = "wait"
    /\ futIdx < Height
    /\ FutureUnblocked(futures[futIdx])
    /\ futures[futIdx] # "exception"
    /\ futIdx' = futIdx + 1
    /\ mainPc' = IF futIdx + 1 < Height THEN "wait" ELSE "header"
    /\ UNCHANGED <<thrown, j, futures, pixels, writers, output, m_done, m_queue,
                   m_threads, joinIdx, wpc, current_task, i>>
    /\ UNCHANGED <<rngVars, hitVars, traceVars, scatterVars,
                   splitVars, cameraVars, sceneVars, poolVars>>

\* fut.get() rethrows the stored exception; main has no handler, so the
\* process is terminated.
MainGetThrows ==
    /\ mainPc = "wait"
    /\ futIdx < Height
    /\ FutureUnblocked(futures[futIdx])
    /\ futures[futIdx] = "exception"
    /\ mainPc' = "aborted"
    /\ UNCHANGED <<thrown, j, futures, futIdx, pixels, writers, output, m_done,
                   m_queue, m_threads, joinIdx, wpc, current_task, i>>
    /\ UNCHANGED <<rngVars, hitVars, traceVars, scatterVars,
                   splitVars, cameraVars, sceneVars, poolVars>>

\* outImageStream << "P3\n" << width << ' ' << height << "\n255\n"
MainHeader ==
    /\ mainPc = "header"
    /\ output' = <<"P3">>
    /\ mainPc' = "write"
    /\ UNCHANGED <<thrown, j, futures, futIdx, pixels, writers, m_done, m_queue,
                   m_threads, joinIdx, wpc, current_task, i>>
    /\ UNCHANGED <<rngVars, hitVars, traceVars, scatterVars,
                   splitVars, cameraVars, sceneVars, poolVars>>

\* for (const auto& col : pixels) writeColour(outImageStream, col, ...)
MainWritePixel ==
    /\ mainPc = "write"
    /\ Len(output) - 1 < Width * Height
    /\ output' = Append(output, pixels[Len(output) - 1])
    /\ mainPc' = IF Len(output) < Width * Height THEN "write" ELSE "destroy"
    /\ UNCHANGED <<thrown, j, futures, futIdx, pixels, writers, m_done, m_queue,
                   m_threads, joinIdx, wpc, current_task, i>>
    /\ UNCHANGED <<rngVars, hitVars, traceVars, scatterVars,
                   splitVars, cameraVars, sceneVars, poolVars>>

(***************************************************************************)
(* thread_pool::~thread_pool                                               *)
(***************************************************************************)
PoolDestroy ==
    /\ mainPc = "destroy"
    /\ m_done' = TRUE
    /\ joinIdx' = 1
    /\ mainPc' = "join"
    /\ UNCHANGED <<thrown, j, futures, futIdx, pixels, writers, output, m_queue,
                   m_threads, wpc, current_task, i>>
    /\ UNCHANGED <<rngVars, hitVars, traceVars, scatterVars,
                   splitVars, cameraVars, sceneVars, poolVars>>

PoolJoin ==
    /\ mainPc = "join"
    /\ joinIdx <= m_threads
    /\ wpc[joinIdx] = "exited"
    /\ joinIdx' = joinIdx + 1
    /\ UNCHANGED <<thrown, mainPc, j, futures, futIdx, pixels, writers, output,
                   m_done, m_queue, m_threads, wpc, current_task, i>>
    /\ UNCHANGED <<rngVars, hitVars, traceVars, scatterVars,
                   splitVars, cameraVars, sceneVars, poolVars>>

PoolJoined ==
    /\ mainPc = "join"
    /\ joinIdx > m_threads
    /\ mainPc' = "exit"
    /\ UNCHANGED <<thrown, j, futures, futIdx, pixels, writers, output, m_done,
                   m_queue, m_threads, joinIdx, wpc, current_task, i>>
    /\ UNCHANGED <<rngVars, hitVars, traceVars, scatterVars,
                   splitVars, cameraVars, sceneVars, poolVars>>

(***************************************************************************)
(* thread_pool::worker_thread                                              *)
(***************************************************************************)
\* while (!m_done.load(std::memory_order_acquire))
WorkerLoop(w) ==
    /\ Alive
    /\ wpc[w] = "loop"
    /\ wpc' = [wpc EXCEPT ![w] = IF m_done THEN "exited" ELSE "pop"]
    /\ UNCHANGED <<thrown, mainPc, j, futures, futIdx, pixels, writers, output,
                   m_done, m_queue, m_threads, joinIdx, current_task, i>>
    /\ UNCHANGED <<rngVars, hitVars, traceVars, scatterVars,
                   splitVars, cameraVars, sceneVars, poolVars>>

\* if (m_queue.try_pop(current_task)) ... else std::this_thread::yield()
WorkerTryPop(w) ==
    /\ Alive
    /\ wpc[w] = "pop"
    /\ IF m_queue = <<>>
       THEN /\ wpc' = [wpc EXCEPT ![w] = "loop"]
            /\ UNCHANGED <<m_queue, current_task, i>>
       ELSE /\ current_task' = [current_task EXCEPT ![w] = Head(m_queue)]
            /\ m_queue' = Tail(m_queue)
            /\ i' = [i EXCEPT ![w] = 0]
            /\ wpc' = [wpc EXCEPT ![w] = "run"]
    /\ UNCHANGED <<thrown, mainPc, j, futures, futIdx, pixels, writers, output,
                   m_done, m_threads, joinIdx>>
    /\ UNCHANGED <<rngVars, hitVars, traceVars, scatterVars,
                   splitVars, cameraVars, sceneVars, poolVars>>

\* process_row: pixels[width*(height-j-1)+i] = sumColour(i, j, raysPerPixel)
WorkerPixel(w) ==
    /\ Alive
    /\ wpc[w] = "run"
    /\ i[w] < Width
    /\ LET cell == CellIndex(i[w], current_task[w])
       IN  /\ pixels' = [pixels EXCEPT
                            ![cell] = sumColour(i[w], current_task[w])]
           /\ writers' = [writers EXCEPT
                            ![cell] = Append(@, current_task[w])]
    /\ i' = [i EXCEPT ![w] = @ + 1]
    /\ UNCHANGED <<thrown, mainPc, j, futures, futIdx, output, m_done, m_queue,
                   m_threads, joinIdx, wpc, current_task>>
    /\ UNCHANGED <<rngVars, hitVars, traceVars, scatterVars,
                   splitVars, cameraVars, sceneVars, poolVars>>

\* sumColour throws inside the task: packaged_task stores the exception in
\* the shared state and current_task() returns normally to the worker loop.
WorkerThrow(w) ==
    /\ Alive
    /\ wpc[w] = "run"
    /\ i[w] < Width
    /\ futures' = [futures EXCEPT ![current_task[w]] = TaskOutcome(TRUE)]
    /\ thrown' = thrown \cup {current_task[w]}
    /\ wpc' = [wpc EXCEPT ![w] = "loop"]
    /\ UNCHANGED <<mainPc, j, futIdx, pixels, writers, output, m_done,
                   m_queue, m_threads, joinIdx, current_task, i>>
    /\ UNCHANGED <<rngVars, hitVars, traceVars, scatterVars,
                   splitVars, cameraVars, sceneVars, poolVars>>

\* process_row returns: packaged_task makes the shared state ready.
WorkerFinish(w) ==
    /\ Alive
    /\ wpc[w] = "run"
    /\ i[w] = Width
    /\ futures' = [futures EXCEPT ![current_task[w]] = TaskOutcome(FALSE)]
    /\ wpc' = [wpc EXCEPT ![w] = "loop"]
    /\ UNCHANGED <<thrown, mainPc, j, futIdx, pixels, writers, output, m_done,
                   m_queue, m_threads, joinIdx, current_task, i>>
    /\ UNCHANGED <<rngVars, hitVars, traceVars, scatterVars,
                   splitVars, cameraVars, sceneVars, poolVars>>

Next ==
    \/ MainSubmit
    \/ MainGet
    \/ MainGetThrows
    \/ MainHeader
    \/ MainWritePixel
    \/ PoolDestroy
    \/ PoolJoin
    \/ PoolJoined
    \/ \E w \in Threads : WorkerLoop(w)
    \/ \E w \in Threads : WorkerTryPop(w)
    \/ \E w \in Threads : WorkerPixel(w)
    \/ \E w \in Threads : WorkerThrow(w)
    \/ \E w \in Threads : WorkerFinish(w)

Spec == Init /\ [][Next]_vars

(***************************************************************************)
(* SpecRng: the generators reached from a row task.  Every worker of the   *)
(* pool is inside sumColour for some pixel of its row.  A call that draws  *)
(* from a generator advances the generator's state over a begin and an end *)
(* step; inGen names the generator instance in between.                    *)
(*   <<"randNumberBetween", w>>  thread_local mersenne of worker w         *)
(*   <<"VectorFunc", 0>>         namespace-scope mersenne, guarded by m    *)
(*   <<"Dielectric", 0>>         function-static mersenne of randNumber    *)
(***************************************************************************)
Materials == {"Lambertian", "Metal", "Dielectric"}

\* randNumberBetween: static thread_local std::mt19937 mersenne
JitterGenerator(w) == <<"randNumberBetween", w>>

\* Dielectric::randNumber: static std::mt19937 mersenne
DielectricGenerator(w) == <<"Dielectric", 0>>

\* VectorFunc.cpp: std::mt19937 mersenne in the unnamed namespace
VectorGenerator(w) == <<"VectorFunc", 0>>

\* Every row has been submitted and worker w has popped row w - 1 and is
\* about to compute its first pixel.
RngInit ==
    /\ mainPc = "wait"
    /\ j = Height
    /\ futures = [r \in Rows |-> "pending"]
    /\ futIdx = 0
    /\ pixels = [c \in Cells |-> ZeroColour]
    /\ writers = [c \in Cells |-> <<>>]
    /\ output = <<>>
    /\ thrown = {}
    /\ m_done = FALSE
    /\ m_queue = [r \in 1 .. (Height - MaxThreads) |-> MaxThreads + r - 1]
    /\ m_threads = MaxThreads
    /\ joinIdx = 1
    /\ wpc = [w \in Threads |-> "run"]
    /\ current_task = [w \in Threads |-> w - 1]
    /\ i = [w \in Threads |-> 0]
    /\ HitIdle
    /\ TraceIdle
    /\ ScatterIdle
    /\ PoolIdle
    /\ SceneIdle
    /\ CameraIdle
    /\ SplitIdle
    /\ rpc = [w \in Threads |-> "sample"]
    /\ raysToCalc = [w \in Threads |-> RaysPerPixel]
    /\ inDepth = [w \in Threads |-> 0]
    /\ material = [w \in Threads |-> "none"]
    /\ m = 0
    /\ inGen = [w \in Threads |-> NoGenerator]

\* while (--raysToCalc >= 0)
SampleLoop(w) ==
    /\ rpc[w] = "sample"
    /\ raysToCalc' = [raysToCalc EXCEPT ![w] = @ - 1]
    /\ rpc' = [rpc EXCEPT ![w] = IF raysToCalc[w] - 1 >= 0
                                  THEN "jitterX" ELSE "idle"]
    /\ UNCHANGED <<inDepth, material, m, inGen>>
    /\ UNCHANGED <<renderVars, hitVars, traceVars, scatterVars,
                   splitVars, cameraVars, sceneVars, poolVars>>

\* randNumberBetween(0, 1): distribution(mersenne) starts
JitterBegin(w) ==
    /\ rpc[w] \in {"jitterX", "jitterY"}
    /\ inGen[w] = NoGenerator
    /\ inGen' = [inGen EXCEPT ![w] = JitterGenerator(w)]
    /\ UNCHANGED <<rpc, raysToCalc, inDepth, material, m>>
    /\ UNCHANGED <<renderVars, hitVars, traceVars, scatterVars,
                   splitVars, cameraVars, sceneVars, poolVars>>

\* randNumberBetween(0, 1) returns
JitterEnd(w) ==
    /\ rpc[w] \in {"jitterX", "jitterY"}
    /\ inGen[w] # NoGenerator
    /\ inGen' = [inGen EXCEPT ![w] = NoGenerator]
    /\ rpc' = [rpc EXCEPT ![w] = IF rpc[w] = "jitterX"
                                  THEN "jitterY" ELSE "diskLock"]
    /\ UNCHANGED <<raysToCalc, inDepth, material, m>>
    /\ UNCHANGED <<renderVars, hitVars, traceVars, scatterVars,
                   splitVars, cameraVars, sceneVars, poolVars>>

\* dp::randVector / dp::randInUnitSphere: std::lock_guard<std::mutex> lck(m)
VectorLock(w) ==
    /\ rpc[w] \in {"diskLock", "sphereLock"}
    /\ m = 0
    /\ m' = w
    /\ rpc' = [rpc EXCEPT ![w] = IF rpc[w] = "diskLock"
                                  THEN "diskDraw" ELSE "sphereDraw"]
    /\ UNCHANGED <<raysToCalc, inDepth, material, inGen>>
    /\ UNCHANGED <<renderVars, hitVars, traceVars, scatterVars,
                   splitVars, cameraVars, sceneVars, poolVars>>

\* distribution(mersenne) / dist(mersenne) under the lock
VectorDrawBegin(w) ==
    /\ rpc[w] \in {"diskDraw", "sphereDraw"}
    /\ inGen[w] = NoGenerator
    /\ inGen' = [inGen EXCEPT ![w] = VectorGenerator(w)]
    /\ UNCHANGED <<rpc, raysToCalc, inDepth, material, m>>
    /\ UNCHANGED <<renderVars, hitVars, traceVars, scatterVars,
                   splitVars, cameraVars, sceneVars, poolVars>>

\* the draws are done and the function returns, releasing the lock_guard
VectorDrawEnd(w) ==
    /\ rpc[w] \in {"diskDraw", "sphereDraw"}
    /\ inGen[w] # NoGenerator
    /\ inGen' = [inGen EXCEPT ![w] = NoGenerator]
    /\ m' = 0
    /\ rpc' = [rpc EXCEPT ![w] = IF rpc[w] = "diskDraw"
                                  THEN "diskTest" ELSE "scattered"]
    /\ UNCHANGED <<raysToCalc, inDepth, material>>
    /\ UNCHANGED <<renderVars, hitVars, traceVars, scatterVars,
                   splitVars, cameraVars, sceneVars, poolVars>>

\* randInUnitDisk: if (Vec.lengthSquared() >= 1) continue
DiskReject(w) ==
    /\ rpc[w] = "diskTest"
    /\ rpc' = [rpc EXCEPT ![w] = "diskLock"]
    /\ UNCHANGED <<raysToCalc, inDepth, material, m, inGen>>
    /\ UNCHANGED <<renderVars, hitVars, traceVars, scatterVars,
                   splitVars, cameraVars, sceneVars, poolVars>>

\* randInUnitDisk returns; calcColour(currentRay, worldObjects, maxDepth)
DiskAccept(w) ==
    /\ rpc[w] = "diskTest"
    /\ rpc' = [rpc EXCEPT ![w] = "trace"]
    /\ inDepth' = [inDepth EXCEPT ![w] = MaxDepth]
    /\ UNCHANGED <<raysToCalc, material, m, inGen>>
    /\ UNCHANGED <<renderVars, hitVars, traceVars, scatterVars,
                   splitVars, cameraVars, sceneVars, poolVars>>

\* calcColour: depth exhausted, or the ray hits nothing
TraceEnd(w) ==
    /\ rpc[w] = "trace"
    /\ rpc' = [rpc EXCEPT ![w] = "sample"]
    /\ UNCHANGED <<raysToCalc, inDepth, material, m, inGen>>
    /\ UNCHANGED <<renderVars, hitVars, traceVars, scatterVars,
                   splitVars, cameraVars, sceneVars, poolVars>>

\* calcColour: the ray hits a sphere of material mat; isScattered is called
TraceHit(w, mat) ==
    /\ rpc[w] = "trace"
    /\ inDepth[w] > 0
    /\ material' = [material EXCEPT ![w] = mat]
    /\ rpc' = [rpc EXCEPT ![w] = IF mat = "Dielectric"
                                  THEN "fresnel" ELSE "sphereLock"]
    /\ UNCHANGED <<raysToCalc, inDepth, m, inGen>>
    /\ UNCHANGED <<renderVars, hitVars, traceVars, scatterVars,
                   splitVars, cameraVars, sceneVars, poolVars>>

\* Dielectric::randNumber: distribution(mersenne) starts
FresnelBegin(w) ==
    /\ rpc[w] = "fresnel"
    /\ inGen[w] = NoGenerator
    /\ inGen' = [inGen EXCEPT ![w] = DielectricGenerator(w)]
    /\ UNCHANGED <<rpc, raysToCalc, inDepth, material, m>>
    /\ UNCHANGED <<renderVars, hitVars, traceVars, scatterVars,
                   splitVars, cameraVars, sceneVars, poolVars>>

\* Dielectric::randNumber returns
FresnelEnd(w) ==
    /\ rpc[w] = "fresnel"
    /\ inGen[w] # NoGenerator
    /\ inGen' = [inGen EXCEPT ![w] = NoGenerator]
    /\ rpc' = [rpc EXCEPT ![w] = "scattered"]
    /\ UNCHANGED <<raysToCalc, inDepth, material, m>>
    /\ UNCHANGED <<renderVars, hitVars, traceVars, scatterVars,
                   splitVars, cameraVars, sceneVars, poolVars>>

\* isScattered returned true: calcColour(scatteredRay, inObject, inDepth - 1)
ScatterRecurse(w) ==
    /\ rpc[w] = "scattered"
    /\ inDepth' = [inDepth EXCEPT ![w] = @ - 1]
    /\ material' = [material EXCEPT ![w] = "none"]
    /\ rpc' = [rpc EXCEPT ![w] = "trace"]
    /\ UNCHANGED <<raysToCalc, m, inGen>>
    /\ UNCHANGED <<renderVars, hitVars, traceVars, scatterVars,
                   splitVars, cameraVars, sceneVars, poolVars>>

\* Metal::isScattered returned false: the ray is absorbed
MetalAbsorb(w) ==
    /\ rpc[w] = "scattered"
    /\ material[w] = "Metal"
    /\ material' = [material EXCEPT ![w] = "none"]
    /\ rpc' = [rpc EXCEPT ![w] = "sample"]
    /\ UNCHANGED <<raysToCalc, inDepth, m, inGen>>
    /\ UNCHANGED <<renderVars, hitVars, traceVars, scatterVars,
                   splitVars, cameraVars, sceneVars, poolVars>>

RngNext ==
    \/ \E w \in Threads : SampleLoop(w)
    \/ \E w \in Threads : JitterBegin(w)
    \/ \E w \in Threads : JitterEnd(w)
    \/ \E w \in Threads : VectorLock(w)
    \/ \E w \in Threads : VectorDrawBegin(w)
    \/ \E w \in Threads : VectorDrawEnd(w)
    \/ \E w \in Threads : DiskReject(w)
    \/ \E w \in Threads : DiskAccept(w)
    \/ \E w \in Threads : TraceEnd(w)
    \/ \E w \in Threads : \E mat \in Materials : TraceHit(w, mat)
    \/ \E w \in Threads : FresnelBegin(w)
    \/ \E w \in Threads : FresnelEnd(w)
    \/ \E w \in Threads : ScatterRecurse(w)
    \/ \E w \in Threads : MetalAbsorb(w)

SpecRng == RngInit /\ [][RngNext]_vars

(***************************************************************************)
(* SpecHit: HittableList::isHit over a list of spheres.                    *)
(***************************************************************************)
\* Ray::at(t) = m_origin + m_direction.scaledBy(t)
RayAt(ray, t) ==
    QVec(Plus(scaledBy(ray.m_origin, t[2]), scaledBy(ray.m_direction, t[1])),
         t[2])

\* HitRecord::setNormalDirection
setNormalDirectionFlipped(rec, ray, outwardNormal) ==
    LET frontFace == innerProduct(ray.m_direction, outwardNormal.v) < 0
    IN  [rec EXCEPT !.m_frontFace = frontFace,
                    !.m_normal = IF frontFace THEN Negated(outwardNormal)
                                              ELSE outwardNormal]

setNormalDirection(rec, ray, outwardNormal) ==
    LET frontFace == innerProduct(ray.m_direction, outwardNormal.v) < 0
    IN  [rec EXCEPT !.m_frontFace = frontFace,
                    !.m_normal = IF frontFace THEN outwardNormal
                                              ELSE Negated(outwardNormal)]

\* Sphere::isHit: solution < t_min || t_max < solution
OutOfRangeNoUpper(solution, tmin, tmax) == RLess(solution, tmin)

OutOfRangeStrict(solution, tmin, tmax) ==
    RLess(solution, tmin) \/ RLeq(tmax, solution)

OutOfRange(solution, tmin, tmax) ==
    RLess(solution, tmin) \/ RLess(tmax, solution)

\* Sphere::isHit: the "default" solution (-h - discrimRoot) / a
FirstSolutionPlus(h, discrimRoot, a) == Rat(-h + discrimRoot, a)

FirstSolution(h, discrimRoot, a) == Rat(-h - discrimRoot, a)

\* Sphere::isHit: the other solution (-h + discrimRoot) / a
OtherSolutionMinus(h, discrimRoot, a) == Rat(-h - discrimRoot, a)

OtherSolution(h, discrimRoot, a) == Rat(-h + discrimRoot, a)

\* h * h - a * c of Sphere::isHit
Discriminant(sphere, ray) ==
    LET originToCenter == Minus(ray.m_origin, sphere.m_center)
        a == lengthSquared(ray.m_direction)
        h == innerProduct(originToCenter, ray.m_direction)
        c == lengthSquared(originToCenter) - sphere.m_radius * sphere.m_radius
    IN  h * h - a * c

\* Sphere::isHit: return false, before any member of inRec was assigned
NoHitClearsRecord(rec) == [hit |-> FALSE, rec |-> EmptyRecord]

NoHit(rec) == [hit |-> FALSE, rec |-> rec]

\* Sphere::isHit(inRay, t_min, t_max, inRec): [hit, rec]
SphereIsHit(sphere, ray, tmin, tmax, rec) ==
    LET originToCenter == Minus(ray.m_origin, sphere.m_center)
        a == lengthSquared(ray.m_direction)
        h == innerProduct(originToCenter, ray.m_direction)
        discriminant == Discriminant(sphere, ray)
    IN  IF discriminant < 0
        THEN NoHit(rec)
        ELSE
          LET discrimRoot == sqrt(discriminant)
              first == FirstSolution(h, discrimRoot, a)
              other == OtherSolution(h, discrimRoot, a)
              solution == IF OutOfRange(first, tmin, tmax)
                          THEN other ELSE first
          IN  IF OutOfRange(first, tmin, tmax)
                 /\ OutOfRange(other, tmin, tmax)
              THEN NoHit(rec)
              ELSE
                LET point == RayAt(ray, solution)
                    outwardNormal ==
                        QVec(Minus(point.v,
                                   scaledBy(sphere.m_center, point.d)),
                             point.d * sphere.m_radius)
                    rec1 == [rec EXCEPT !.m_interval = solution,
                                        !.m_point = point]
                    rec2 == setNormalDirection(rec1, ray, outwardNormal)
                IN  [hit |-> TRUE,
                     rec |-> [rec2 EXCEPT
                                !.m_materialPtr = sphere.m_material]]

\* HittableList::isHit: closestSoFar = tempRecord.m_interval
ShrinkUpperBoundStale(closest, rec) == closest

ShrinkUpperBound(closest, rec) == rec.m_interval

\* Inputs of the query.
Origins == {<<0, 0, 0>>, <<0, 0, -3>>}
Directions == {<<0, 0, -1>>, <<0, 0, -2>>}
Radii == {1, 2}
MaterialOf(radius) == IF radius = 1 THEN "Lambertian" ELSE "Dielectric"
\* Spheres on the axis of the rays, and one sphere the rays graze.
Spheres ==
    {[m_center |-> <<0, 0, z>>, m_radius |-> r, m_material |-> MaterialOf(r)] :
        z \in (-ZFar) .. (-2), r \in Radii}
    \cup {[m_center |-> <<0, 1, -3>>, m_radius |-> 1,
           m_material |-> "Metal"]}
SphereLists ==
    UNION {[1 .. n -> Spheres] : n \in 0 .. MaxObjects}
TMins == {Rat(1, 1000), Rat(3, 1)}
TMaxs == {Rat(4, 1), Infinity}

HitInit ==
    /\ RenderInit
    /\ m_threads = 0
    /\ RngIdle
    /\ PoolIdle
    /\ SceneIdle
    /\ CameraIdle
    /\ SplitIdle
    /\ TraceIdle
    /\ ScatterIdle
    /\ inRay \in [m_origin : Origins, m_direction : Directions]
    /\ m_objectList \in SphereLists
    /\ \A n \in 1 .. Len(m_objectList) :
          LET d == Discriminant(m_objectList[n], inRay)
          IN  d < 0 \/ IsSquare(d)
    /\ t_min \in TMins
    /\ t_max \in TMaxs
    /\ hitPc = "scan"
    /\ hittable = 1
    /\ closestSoFar = t_max
    /\ tempRecord = EmptyRecord
    /\ inRec = CallerRecord
    /\ isHitAnything = FALSE
    /\ lastCall = NoCall

\* one iteration of for (const auto& hittable : m_objectList)
ScanStep ==
    /\ hitPc = "scan"
    /\ hittable <= Len(m_objectList)
    /\ LET res == SphereIsHit(m_objectList[hittable], inRay, t_min, closestSoFar,
                              tempRecord)
       IN  /\ tempRecord' = res.rec
           /\ lastCall' = [obj |-> hittable, t_max |-> closestSoFar, hit |-> res.hit]
           /\ IF res.hit
              THEN /\ isHitAnything' = TRUE
                   /\ closestSoFar' = ShrinkUpperBound(closestSoFar, res.rec)
                   /\ inRec' = res.rec
              ELSE UNCHANGED <<isHitAnything, closestSoFar, inRec>>
    /\ hittable' = hittable + 1
    /\ UNCHANGED <<inRay, m_objectList, t_min, t_max, hitPc>>
    /\ UNCHANGED <<renderVars, rngVars, traceVars, scatterVars,
                   splitVars, cameraVars, sceneVars, poolVars>>

\* return isHitAnything
ScanReturn ==
    /\ hitPc = "scan"
    /\ hittable > Len(m_objectList)
    /\ hitPc' = "returned"
    /\ UNCHANGED <<inRay, m_objectList, t_min, t_max, hittable, closestSoFar,
                   tempRecord, inRec, isHitAnything, lastCall>>
    /\ UNCHANGED <<renderVars, rngVars, traceVars, scatterVars,
                   splitVars, cameraVars, sceneVars, poolVars>>

HitNext ==
    \/ ScanStep
    \/ ScanReturn

SpecHit == HitInit /\ [][HitNext]_vars

(***************************************************************************)
(* SpecSphere: one call of Sphere::isHit on a caller-supplied record.      *)
(***************************************************************************)
Centers == {<<0, 0, 0>>, <<0, 0, -3>>, <<1, -2, 2>>}
RayDirections ==
    {<<0, 0, -1>>, <<0, 0, -2>>, <<1, 0, 0>>, <<0, -3, 0>>, <<0, 3, -4>>,
     <<2, -1, 2>>}
CallTMins == {Rat(0, 1), Rat(1, 1000)}
CallTMaxs == {Rat(1, 1), Rat(3, 1), Rat(4, 1), Infinity}

SphereInit ==
    /\ RenderInit
    /\ m_threads = 0
    /\ RngIdle
    /\ PoolIdle
    /\ SceneIdle
    /\ CameraIdle
    /\ SplitIdle
    /\ TraceIdle
    /\ ScatterIdle
    /\ inRay \in [m_origin : Centers \cup Origins, m_direction : RayDirections]
    /\ m_objectList \in
          {<<[m_center |-> c, m_radius |-> r, m_material |-> MaterialOf(r)]>> :
              c \in Centers, r \in Radii}
    /\ LET d == Discriminant(m_objectList[1], inRay)
       IN  d < 0 \/ IsSquare(d)
    /\ t_min \in CallTMins
    /\ t_max \in CallTMaxs
    /\ hitPc = "call"
    /\ hittable = 1
    /\ closestSoFar = t_max
    /\ tempRecord = CallerRecord
    /\ inRec = CallerRecord
    /\ isHitAnything = FALSE
    /\ lastCall = NoCall

\* sphere.isHit(inRay, t_min, t_max, tempRecord)
SphereCall ==
    /\ hitPc = "call"
    /\ LET res == SphereIsHit(m_objectList[1], inRay, t_min, t_max, tempRecord)
       IN  /\ tempRecord' = res.rec
           /\ lastCall' = [obj |-> 1, t_max |-> t_max, hit |-> res.hit]
    /\ hitPc' = "called"
    /\ UNCHANGED <<inRay, m_objectList, t_min, t_max, hittable, closestSoFar,
                   inRec, isHitAnything>>
    /\ UNCHANGED <<renderVars, rngVars, traceVars, scatterVars,
                   splitVars, cameraVars, sceneVars, poolVars>>

SphereNext == SphereCall

SpecSphere == SphereInit /\ [][SphereNext]_vars

(***************************************************************************)
(* SpecTrace: one outermost call of calcColour and the calls it makes to   *)
(* itself.  The frames of the suspended callers are kept as the sequence   *)
(* of their attenuation colours; a return multiplies the returned colour   *)
(* by the attenuation of the caller it returns to.                         *)
(***************************************************************************)
\* double arithmetic on rationals
RPlus(x, y) == Rat(x[1] * y[2] + y[1] * x[2], x[2] * y[2])
RMinus(x, y) == Rat(x[1] * y[2] - y[1] * x[2], x[2] * y[2])
RTimes(x, y) == Rat(x[1] * y[1], x[2] * y[2])

\* PhysicsVector on vectors with a denominator: scaledBy, operator+,
\* operator-, innerProduct, and equality of the values
QScaled(q, x) == QVec(scaledBy(q.v, x[1]), q.d * x[2])
QPlus(p, q) == QVec(Plus(scaledBy(p.v, q.d), scaledBy(q.v, p.d)), p.d * q.d)
QMinus(p, q) == QVec(Minus(scaledBy(p.v, q.d), scaledBy(q.v, p.d)), p.d * q.d)
QInner(p, q) == Rat(innerProduct(p.v, q.v), p.d * q.d)
QEq(p, q) == scaledBy(p.v, q.d) = scaledBy(q.v, p.d)

RECURSIVE GCD(_, _)
GCD(x, y) == IF y = 0 THEN x ELSE GCD(y, x % y)

\* The same double / the same vector, in lowest terms.
Reduced(x) ==
    LET g == GCD(Abs(x[1]), x[2])
    IN  IF g = 0 THEN x ELSE Rat(x[1] \div g, x[2] \div g)
QReduced(q) ==
    LET g == GCD(GCD(GCD(Abs(q.v[1]), Abs(q.v[2])), Abs(q.v[3])), q.d)
    IN  QVec(<<q.v[1] \div g, q.v[2] \div g, q.v[3] \div g>>, q.d \div g)

\* PhysicsVector::getUnitVector of a direction whose length is an integer
getUnitVector(dir) == QVec(dir, sqrt(lengthSquared(dir)))

\* dp::scaledByVector: (a,b,c) * (x,y,z) = (ax,by,cz)
scaledByVectorKeepsFirst(toScale, scaleBy) == toScale

scaledByVector(toScale, scaleBy) ==
    QReduced(QVec(<<toScale.v[1] * scaleBy.v[1], toScale.v[2] * scaleBy.v[2],
                    toScale.v[3] * scaleBy.v[3]>>, toScale.d * scaleBy.d))

\* dp::smoothReflect: inRay - inNormal.scaledBy(2 * inRay.innerProduct(inNormal))
smoothReflect(inVec, inNormal) ==
    QMinus(inVec, QScaled(inNormal, RTimes(Rat(2, 1), QInner(inVec, inNormal))))

\* HittableList::isHit as a function of its arguments: the loop from
\* position n of the list on.
RECURSIVE ScanFrom(_, _, _, _, _, _, _, _)
ScanFrom(list, n, ray, tmin, closest, temp, rec, any) ==
    IF n > Len(list)
    THEN [hit |-> any, rec |-> rec]
    ELSE LET res == SphereIsHit(list[n], ray, tmin, closest, temp)
         IN  IF res.hit
             THEN ScanFrom(list, n + 1, ray, tmin,
                           ShrinkUpperBound(closest, res.rec), res.rec,
                           res.rec, TRUE)
             ELSE ScanFrom(list, n + 1, ray, tmin, closest, res.rec, rec, any)

HittableListIsHit(list, ray, tmin, tmax, rec) ==
    ScanFrom(list, 1, ray, tmin, tmax, EmptyRecord, rec, FALSE)

\* calcColour: inObject.isHit(inRay, 0.001, infinity, tempRecord)
SceneQuery(list, ray, rec) ==
    HittableListIsHit(list, ray, Rat(1, 1000), Infinity, rec)

\* m_albedoColour of the materials of the scenes; a Dielectric sets the
\* attenuation to {1,1,1}.
AlbedoOf(mat) ==
    CASE mat = "Lambertian" -> QVec(<<1, 1, 1>>, 2)
      [] mat = "Metal" -> QVec(<<8, 6, 2>>, 10)
      [] OTHER -> QVec(<<1, 1, 1>>, 1)

\* The return value of m_materialPtr->isScattered(inRay, tempRecord, ...).
IsScattered(mat, ray, rec) ==
    IF mat = "Metal"
    THEN RLess(Rat(0, 1),
               QInner(smoothReflect(getUnitVector(ray.m_direction),
                                    rec.m_normal), rec.m_normal))
    ELSE TRUE

\* calcColour: the colour of the background for a ray that hits nothing
BackgroundNoBlend(ray) == QVec(<<1, 1, 1>>, 1)

Background(ray) ==
    LET unitDirection == getUnitVector(ray.m_direction)
        backgroundT == RTimes(Rat(1, 2),
                              RPlus(Rat(unitDirection.v[2], unitDirection.d),
                                    Rat(1, 1)))
    IN  QReduced(QPlus(QScaled(QVec(<<1, 1, 1>>, 1),
                               RMinus(Rat(1, 1), backgroundT)),
                       QScaled(QVec(<<5, 7, 10>>, 10), backgroundT)))

\* calcColour: the inDepth passed to the call for the scattered ray
NextDepthSame(d) == d

NextDepth(d) == d - 1

\* The values of a ray for which the arithmetic of the query is exact: the
\* length of the direction and the roots for every sphere are rational, and
\* the nearest hit point has integer coordinates.
Representable(list, ray) ==
    /\ IsSquare(lengthSquared(ray.m_direction))
    /\ \A n \in 1 .. Len(list) :
          LET d == Discriminant(list[n], ray)
          IN  d < 0 \/ IsSquare(d)
    /\ LET res == SceneQuery(list, ray, EmptyRecord)
       IN  res.hit => \A c \in 1 .. 3 : res.rec.m_point.v[c] % res.rec.m_point.d = 0

TraceSpheres ==
    {[m_center |-> <<0, 0, -3>>, m_radius |-> 1, m_material |-> "Lambertian"],
     [m_center |-> <<0, 0, -5>>, m_radius |-> 1, m_material |-> "Dielectric"],
     [m_center |-> <<0, 1, -3>>, m_radius |-> 1, m_material |-> "Metal"],
     [m_center |-> <<0, 0, -2>>, m_radius |-> 1, m_material |-> "Metal"]}
Scenes == UNION {[1 .. n -> TraceSpheres] : n \in 0 .. MaxObjects}
\* Directions a material may give the scattered ray.
ScatterDirections == {<<0, 0, 1>>, <<0, 0, -1>>, <<0, 3, -4>>}
\* Values of inDepth of the outermost call.
Depths == (-1) .. (MaxDepth + 1)

\* calcColour(currentRay, worldObjects, maxDepth) has just been entered.
TraceInit ==
    /\ RenderInit
    /\ m_threads = 0
    /\ RngIdle
    /\ PoolIdle
    /\ SceneIdle
    /\ CameraIdle
    /\ SplitIdle
    /\ inRay \in [m_origin : Origins, m_direction : RayDirections]
    /\ m_objectList \in Scenes
    /\ Representable(m_objectList, inRay)
    /\ t_min = Rat(1, 1000)
    /\ t_max = Infinity
    /\ hitPc = "idle"
    /\ hittable = 1
    /\ closestSoFar = Infinity
    /\ tempRecord = EmptyRecord
    /\ inRec = CallerRecord
    /\ isHitAnything = FALSE
    /\ lastCall = NoCall
    /\ tracePc = "enter"
    /\ traceDepth \in Depths
    /\ firstDepth = traceDepth
    /\ frames = <<>>
    /\ retColour = Black
    /\ scatterOf = NoMaterial
    /\ nQueries = 0
    /\ nScatters = 0
    /\ ScatterIdle

\* if (inDepth <= 0) return colour{ 0, 0, 0 }
TraceDepthOut ==
    /\ tracePc = "enter"
    /\ traceDepth <= 0
    /\ retColour' = Black
    /\ tracePc' = "return"
    /\ UNCHANGED <<traceDepth, frames, scatterOf, nQueries, nScatters,
                   firstDepth>>
    /\ UNCHANGED <<renderVars, rngVars, hitVars, scatterVars,
                   splitVars, cameraVars, sceneVars, poolVars>>

\* if (inObject.isHit(inRay, 0.001, infinity, tempRecord)) ... else the
\* background colour is returned
TraceQuery ==
    /\ tracePc = "enter"
    /\ traceDepth > 0
    /\ nQueries' = nQueries + 1
    /\ LET res == SceneQuery(m_objectList, inRay, tempRecord)
       IN  /\ tempRecord' = res.rec
           /\ IF res.hit
              THEN /\ tracePc' = "scatter"
                   /\ UNCHANGED retColour
              ELSE /\ tracePc' = "return"
                   /\ retColour' = Background(inRay)
    /\ UNCHANGED <<traceDepth, frames, scatterOf, nScatters, firstDepth>>
    /\ UNCHANGED <<inRay, m_objectList, t_min, t_max, hitPc, hittable,
                   closestSoFar, inRec, isHitAnything, lastCall>>
    /\ UNCHANGED <<renderVars, rngVars, scatterVars, splitVars,
                   cameraVars, sceneVars, poolVars>>

\* if (tempRecord.m_materialPtr->isScattered(inRay, tempRecord,
\* attenuationColour, scatteredRay)): calcColour(scatteredRay, inObject,
\* inDepth - 1) is entered; otherwise colour{ 0, 0, 0 } is returned.  dir is
\* the direction the material gave the scattered ray.
TraceScatter(dir) ==
    /\ tracePc = "scatter"
    /\ scatterOf' = tempRecord.m_materialPtr
    /\ nScatters' = nScatters + 1
    /\ IF IsScattered(tempRecord.m_materialPtr, inRay, tempRecord)
       THEN LET scatteredRay ==
                    [m_origin |->
                        <<tempRecord.m_point.v[1] \div tempRecord.m_point.d,
                          tempRecord.m_point.v[2] \div tempRecord.m_point.d,
                          tempRecord.m_point.v[3] \div tempRecord.m_point.d>>,
                     m_direction |-> dir]
            IN  /\ Representable(m_objectList, scatteredRay)
                /\ frames' = Append(frames,
                      [attenuationColour |->
                           AlbedoOf(tempRecord.m_materialPtr),
                       inDepth |-> traceDepth])
                /\ inRay' = scatteredRay
                /\ traceDepth' = NextDepth(traceDepth)
                /\ tempRecord' = EmptyRecord
                /\ tracePc' = "enter"
                /\ UNCHANGED retColour
       ELSE /\ retColour' = Black
            /\ tracePc' = "return"
            /\ UNCHANGED <<frames, inRay, traceDepth, tempRecord>>
    /\ UNCHANGED <<nQueries, firstDepth>>
    /\ UNCHANGED <<m_objectList, t_min, t_max, hitPc, hittable,
                   closestSoFar, inRec, isHitAnything, lastCall>>
    /\ UNCHANGED <<renderVars, rngVars, scatterVars, splitVars,
                   cameraVars, sceneVars, poolVars>>

\* return dp::scaledByVector(calcColour(...), attenuationColour) in the
\* caller of the call that returned
TraceReturn ==
    /\ tracePc = "return"
    /\ frames # <<>>
    /\ retColour' = scaledByVector(retColour,
                                   frames[Len(frames)].attenuationColour)
    /\ traceDepth' = frames[Len(frames)].inDepth
    /\ frames' = SubSeq(frames, 1, Len(frames) - 1)
    /\ UNCHANGED <<tracePc, scatterOf, nQueries, nScatters, firstDepth>>
    /\ UNCHANGED <<renderVars, rngVars, hitVars, scatterVars,
                   splitVars, cameraVars, sceneVars, poolVars>>

\* the outermost call returns to sumColour
TraceDone ==
    /\ tracePc = "return"
    /\ frames = <<>>
    /\ tracePc' = "done"
    /\ UNCHANGED <<traceDepth, frames, retColour, scatterOf, nQueries,
                   nScatters, firstDepth>>
    /\ UNCHANGED <<renderVars, rngVars, hitVars, scatterVars,
                   splitVars, cameraVars, sceneVars, poolVars>>

TraceNext ==
    \/ TraceDepthOut
    \/ TraceQuery
    \/ \E dir \in ScatterDirections : TraceScatter(dir)
    \/ TraceReturn
    \/ TraceDone

SpecTrace == TraceInit /\ [][TraceNext]_vars

(***************************************************************************)
(* SpecScatter: a material is constructed and its isScattered is called    *)
(* once, on the record of a sphere hit.                                    *)
(***************************************************************************)
\* fmin, fabs, sqrt and pow(x, 5) on doubles
fmin(x, y) == IF RLess(y, x) THEN y ELSE x
fabs(x) == Rat(Abs(x[1]), x[2])
HasRSqrt(x) ==
    x[1] >= 0 /\ IsSquare(Reduced(x)[1]) /\ IsSquare(Reduced(x)[2])
RSqrt(x) == Rat(sqrt(Reduced(x)[1]), sqrt(Reduced(x)[2]))
pow5(x) ==
    Reduced(Rat(x[1] * x[1] * x[1] * x[1] * x[1],
                x[2] * x[2] * x[2] * x[2] * x[2]))
QLengthSquared(q) == Reduced(Rat(lengthSquared(q.v), q.d * q.d))
Direction(ray) == QVec(ray.m_direction, 1)

\* Metal::Metal: m_fuzz((inFuzz < 1) ? inFuzz : 1)
StoredFuzz(inFuzz) == IF RLess(inFuzz, Rat(1, 1)) THEN inFuzz ELSE Rat(1, 1)

\* The constructors of Lambertian, Metal and Dielectric.
Construct(args) ==
    [kind |-> args.kind,
     m_albedoColour |-> AlbedoOf(args.kind),
     m_fuzz |-> IF args.kind = "Metal" THEN StoredFuzz(args.inFuzz)
                ELSE Rat(0, 1),
     m_refractiveIndex |-> args.inIndex]

\* Metal::isScattered
MetalIsScattered(self, ray, rec, randInUnitSphere) ==
    LET reflectedDirection ==
            smoothReflect(getUnitVector(ray.m_direction), rec.m_normal)
    IN  [ok |-> RLess(Rat(0, 1), QInner(reflectedDirection, rec.m_normal)),
         inColourAtten |-> self.m_albedoColour,
         origin |-> rec.m_point,
         direction |->
             QReduced(QPlus(QReduced(reflectedDirection),
                            QScaled(randInUnitSphere, self.m_fuzz)))]

\* Lambertian::isScattered: scatterDirection.length() <= epsilon.  epsilon
\* (2^-52) is below the length of every non-zero vector of the model, so the
\* test is decided by whether the vector is zero.
NearZeroNever(q) == FALSE

NearZero(q) == lengthSquared(q.v) = 0

\* Lambertian::isScattered.  randLambertianUnitSphere() is
\* randInUnitSphere().getUnitVector(), and the vector drawn has length 1.
LambertianIsScattered(self, ray, rec, randInUnitSphere) ==
    LET sum == QPlus(rec.m_normal, randInUnitSphere)
        scatterDirection == IF NearZero(sum) THEN rec.m_normal ELSE sum
    IN  [ok |-> TRUE,
         inColourAtten |-> self.m_albedoColour,
         origin |-> rec.m_point,
         direction |-> QReduced(scatterDirection)]

\* Dielectric::calcReflection: R_0 + (1 - R_0) * pow(1 - inCosTheta, 5)
calcReflection(inCosTheta, inRefractiveIndex) ==
    LET ratio == Reduced(Rat(inRefractiveIndex[2] - inRefractiveIndex[1],
                             inRefractiveIndex[2] + inRefractiveIndex[1]))
        R_0 == Reduced(RTimes(ratio, ratio))
    IN  Reduced(RPlus(R_0, RTimes(RMinus(Rat(1, 1), R_0),
                                  pow5(Reduced(RMinus(Rat(1, 1),
                                                      inCosTheta))))))

\* Dielectric::isScattered: refractionRatio
RefractionRatio(self, rec) ==
    IF rec.m_frontFace
    THEN Rat(self.m_refractiveIndex[2], self.m_refractiveIndex[1])
    ELSE self.m_refractiveIndex

\* Dielectric::isScattered: cosTheta, from the direction of the ray as given
CosThetaOf(dir, rec) ==
    Reduced(fmin(QInner(rec.m_normal, Negated(dir)), Rat(1, 1)))

\* dp::refract: rPrimePerp
RPrimePerp(inR, inNormal, etaOverEtaPrime) ==
    LET unitVectorR == getUnitVector(inR)
        cosTheta == Reduced(fmin(QInner(Negated(unitVectorR), inNormal),
                                 Rat(1, 1)))
    IN  QReduced(QScaled(QPlus(unitVectorR, QScaled(inNormal, cosTheta)),
                         etaOverEtaPrime))

\* dp::refract
refract(inR, inNormal, etaOverEtaPrime) ==
    LET rPrimePerp == RPrimePerp(inR, inNormal, etaOverEtaPrime)
        root == RSqrt(fabs(RMinus(Rat(1, 1), QLengthSquared(rPrimePerp))))
        rPrimeParallel == QScaled(inNormal, Rat(-root[1], root[2]))
    IN  QReduced(QPlus(QReduced(rPrimeParallel), rPrimePerp))

\* Dielectric::isScattered: refractionForbidden for a given cosTheta
RefractionForbidden(refractionRatio, cosTheta) ==
    LET sinTheta == RSqrt(RMinus(Rat(1, 1), RTimes(cosTheta, cosTheta)))
    IN  RLess(Rat(1, 1), RTimes(refractionRatio, sinTheta))

\* Dielectric::isScattered
DielectricIsScattered(self, ray, rec, randNumber) ==
    LET refractionRatio == RefractionRatio(self, rec)
        cosTheta == CosThetaOf(Direction(ray), rec)
        refractionForbidden == RefractionForbidden(refractionRatio, cosTheta)
        reflectBecauseFresnel ==
            RLess(randNumber, calcReflection(cosTheta, self.m_refractiveIndex))
        reflects == refractionForbidden \/ reflectBecauseFresnel
    IN  [ok |-> TRUE,
         inColourAtten |-> QVec(<<1, 1, 1>>, 1),
         origin |-> rec.m_point,
         direction |->
             IF reflects
             THEN QReduced(smoothReflect(getUnitVector(ray.m_direction),
                                         rec.m_normal))
             ELSE refract(ray.m_direction, rec.m_normal, refractionRatio),
         cosTheta |-> cosTheta,
         refractionForbidden |-> refractionForbidden,
         reflects |-> reflects]

\* m_materialPtr->isScattered(inRay, inRecord, inColourAtten, scatteredRay)
MaterialIsScattered(self, ray, rec, draws) ==
    CASE self.kind = "Metal" ->
             MetalIsScattered(self, ray, rec, draws.sphere)
      [] self.kind = "Lambertian" ->
             LambertianIsScattered(self, ray, rec, draws.sphere)
      [] OTHER -> DielectricIsScattered(self, ray, rec, draws.number)

\* Inputs: one sphere of radius 5 at the origin, rays that meet it head-on,
\* obliquely (at the angles of the 3-4-5 triangle) and grazing, from outside
\* and from inside.
ScatterOrigins ==
    {<<0, 0, 10>>, <<0, 3, 10>>, <<0, 4, 10>>, <<0, 5, 10>>,
     <<0, 0, 0>>, <<0, 3, 0>>, <<0, 4, 0>>}
Fuzzes == {Rat(-1, 2), Rat(0, 1), Rat(1, 2), Rat(1, 1), Rat(2, 1)}
Indices == {Rat(3, 2), Rat(4, 3)}
CtorArgs ==
    {[kind |-> "Lambertian", inFuzz |-> Rat(0, 1), inIndex |-> Rat(1, 1)]}
    \cup {[kind |-> "Metal", inFuzz |-> f, inIndex |-> Rat(1, 1)] :
             f \in Fuzzes}
    \cup {[kind |-> "Dielectric", inFuzz |-> Rat(0, 1), inIndex |-> n] :
             n \in Indices}
\* Values of randInUnitSphere() (vectors of length 1) and of randNumber().
UnitVectors ==
    {QVec(<<0, 0, 1>>, 1), QVec(<<0, 0, -1>>, 1), QVec(<<0, 1, 0>>, 1),
     QVec(<<0, -1, 0>>, 1), QVec(<<0, 3, 4>>, 5), QVec(<<0, -3, -4>>, 5),
     QVec(<<0, -4, -3>>, 5), QVec(<<0, 3, -4>>, 5)}
Numbers == {Rat(0, 1), Rat(1, 2), Rat(9, 10)}

\* The square roots taken by Dielectric::isScattered for these inputs are
\* rational.
DielectricRepresentable(self, ray, rec, randNumber) ==
    LET refractionRatio == RefractionRatio(self, rec)
        cosTheta == CosThetaOf(Direction(ray), rec)
    IN  /\ HasRSqrt(RMinus(Rat(1, 1), RTimes(cosTheta, cosTheta)))
        /\ \/ RefractionForbidden(refractionRatio, cosTheta)
           \/ RLess(randNumber,
                    calcReflection(cosTheta, self.m_refractiveIndex))
           \/ HasRSqrt(fabs(RMinus(Rat(1, 1),
                    QLengthSquared(RPrimePerp(ray.m_direction, rec.m_normal,
                                              refractionRatio)))))

ScatterInit ==
    /\ RenderInit
    /\ m_threads = 0
    /\ RngIdle
    /\ PoolIdle
    /\ SceneIdle
    /\ CameraIdle
    /\ SplitIdle
    /\ TraceIdle
    /\ ctorArgs \in CtorArgs
    /\ inRay \in [m_origin : ScatterOrigins, m_direction : Directions]
    /\ m_objectList =
          <<[m_center |-> <<0, 0, 0>>, m_radius |-> 5,
             m_material |-> ctorArgs.kind]>>
    /\ t_min = Rat(1, 1000)
    /\ t_max = Infinity
    /\ drawn \in [sphere : UnitVectors, number : Numbers]
    /\ LET res == SphereIsHit(m_objectList[1], inRay, t_min, t_max,
                              EmptyRecord)
       IN  /\ res.hit
           /\ ctorArgs.kind = "Dielectric" =>
                 DielectricRepresentable(Construct(ctorArgs), inRay, res.rec,
                                         drawn.number)
    /\ hitPc = "idle"
    /\ hittable = 1
    /\ closestSoFar = Infinity
    /\ tempRecord = EmptyRecord
    /\ inRec = CallerRecord
    /\ isHitAnything = FALSE
    /\ lastCall = NoCall
    /\ scatterPc = "construct"
    /\ materialObj = NoMat
    /\ scattered = NoScatter

\* std::make_shared<Metal>(colour, fuzz) and the like
ScatterConstruct ==
    /\ scatterPc = "construct"
    /\ materialObj' = Construct(ctorArgs)
    /\ scatterPc' = "hit"
    /\ UNCHANGED <<ctorArgs, drawn, scattered>>
    /\ UNCHANGED <<renderVars, rngVars, hitVars, traceVars,
                   splitVars, cameraVars, sceneVars, poolVars>>

\* the sphere's isHit fills the record that is passed to isScattered
ScatterHit ==
    /\ scatterPc = "hit"
    /\ LET res == SphereIsHit(m_objectList[1], inRay, t_min, t_max, tempRecord)
       IN  /\ tempRecord' = res.rec
           /\ lastCall' = [obj |-> 1, t_max |-> t_max, hit |-> res.hit]
    /\ scatterPc' = "call"
    /\ UNCHANGED <<ctorArgs, materialObj, drawn, scattered>>
    /\ UNCHANGED <<inRay, m_objectList, t_min, t_max, hitPc, hittable,
                   closestSoFar, inRec, isHitAnything>>
    /\ UNCHANGED <<renderVars, rngVars, traceVars, splitVars,
                   cameraVars, sceneVars, poolVars>>

\* tempRecord.m_materialPtr->isScattered(inRay, tempRecord, attenuationColour,
\* scatteredRay)
ScatterCall ==
    /\ scatterPc = "call"
    /\ scattered' = MaterialIsScattered(materialObj, inRay, tempRecord, drawn)
    /\ scatterPc' = "returned"
    /\ UNCHANGED <<ctorArgs, materialObj, drawn>>
    /\ UNCHANGED <<renderVars, rngVars, hitVars, traceVars,
                   splitVars, cameraVars, sceneVars, poolVars>>

ScatterNext ==
    \/ ScatterConstruct
    \/ ScatterHit
    \/ ScatterCall

SpecScatter == ScatterInit /\ [][ScatterNext]_vars

(***************************************************************************)
(* SpecSplit: the rays of one pixel.  In the thread-pool revision one call *)
(* of sumColour traces all raysPerPixel rays; in the std::thread and       *)
(* std::async revisions main validates numberOfThreads, divides the rays   *)
(* over numberOfThreads calls of sumColour, joins them, adds the partial   *)
(* colours and hands the sum to writeColour.                               *)
(***************************************************************************)
\* int / int and int % int of C++ (the quotient is truncated towards zero)
TruncDiv(a, b) ==
    IF (a >= 0) = (b > 0) THEN Abs(a) \div Abs(b) ELSE -(Abs(a) \div Abs(b))
TruncMod(a, b) == a - b * TruncDiv(a, b)

\* the two checks of numberOfThreads after the configuration was read
ValidatedThreads(requested, hw) ==
    IF requested > hw THEN hw ELSE requested

\* raysPerThread + (raysPerPixel % numberOfThreads), for the first call
FirstShare(rays, perThread, threads) == perThread + TruncMod(rays, threads)

\* while (--raysToCalc >= 0): the test on the decremented counter
CountdownContinuesOffByOne(decremented) == decremented > 0

CountdownContinues(decremented) == decremented >= 0

\* a call of sumColour that was launched with raysToCalc = n
SumCall(n) ==
    [raysToCalc |-> n, given |-> n, ran |-> 0, col |-> Black, done |-> FALSE]

\* std::clamp(r, 0.0, 0.999): the upper limit
ClampMaxOne == Rat(1, 1)

ClampMax == Rat(999, 1000)

\* static_cast<int>(256 * std::clamp(std::sqrt(x), 0.0, 0.999)) for x >= 0:
\* sqrt(x) exceeds the limit exactly when x exceeds its square, and
\* otherwise the integer is the largest k with k * k <= 65536 * x.
ChannelByte(x) ==
    IF RLess(RTimes(ClampMax, ClampMax), x)
    THEN (256 * ClampMax[1]) \div ClampMax[2]
    ELSE CHOOSE k \in 0 .. 256 :
            /\ k * k * x[2] <= 65536 * x[1]
            /\ (k + 1) * (k + 1) * x[2] > 65536 * x[1]

\* writeColour(outStream, outColour, samplesPerPixel), samplesPerPixel >= 1
writeColour(outColour, samplesPerPixel) ==
    LET scaled(n) == Reduced(Rat(outColour.v[n], outColour.d * samplesPerPixel))
    IN  <<ChannelByte(scaled(1)), ChannelByte(scaled(2)),
          ChannelByte(scaled(3))>>

\* Inputs: the configured values and the colours calcColour returns.
Revisions == {"pool", "thread", "async"}
RequestedThreads == (-1) .. (MaxThreads + 1)
RayCounts == 0 .. (RaysPerPixel + 2)
SampleColours ==
    {Black, QVec(<<1, 1, 1>>, 1), QVec(<<1, 2, 4>>, 4)}

SplitInit ==
    /\ RenderInit
    /\ m_threads = 0
    /\ HitIdle
    /\ TraceIdle
    /\ RngIdle
    /\ PoolIdle
    /\ SceneIdle
    /\ CameraIdle
    /\ ScatterIdle
    /\ revision \in Revisions
    /\ hardware_concurrency \in 0 .. MaxThreads
    /\ numberOfThreads \in IF revision = "pool" THEN {1} ELSE RequestedThreads
    /\ raysPerPixel \in RayCounts
    /\ splitPc = IF revision = "pool" THEN "launch" ELSE "validate"
    /\ raysPerThread = 0
    /\ sumCalls = <<>>
    /\ traced = 0
    /\ resultColour = Black
    /\ written = <<>>

\* if (numberOfThreads < 1) {...}  if (numberOfThreads > hardware_concurrency())
SplitValidate ==
    /\ splitPc = "validate"
    /\ numberOfThreads' = ValidatedThreads(numberOfThreads, hardware_concurrency)
    /\ splitPc' = "divide"
    /\ UNCHANGED <<revision, hardware_concurrency, raysPerPixel, raysPerThread,
                   sumCalls, traced, resultColour, written>>
    /\ UNCHANGED <<renderVars, rngVars, hitVars, traceVars,
                   scatterVars, cameraVars, sceneVars, poolVars>>

\* int raysPerThread{ raysPerPixel / numberOfThreads }; a division by zero
\* has undefined behaviour.
SplitDivide ==
    /\ splitPc = "divide"
    /\ IF numberOfThreads = 0
       THEN /\ splitPc' = "undefined"
            /\ UNCHANGED raysPerThread
       ELSE /\ raysPerThread' = TruncDiv(raysPerPixel, numberOfThreads)
            /\ splitPc' = "launch"
    /\ UNCHANGED <<revision, hardware_concurrency, numberOfThreads,
                   raysPerPixel, sumCalls, traced, resultColour, written>>
    /\ UNCHANGED <<renderVars, rngVars, hitVars, traceVars,
                   scatterVars, cameraVars, sceneVars, poolVars>>

\* pool: sumColour(i, j, raysPerPixel).  thread: partialColours(numberOfThreads)
\* throws for a negative count; otherwise, as for async, one call with the
\* first share and one call with raysPerThread for each s in 1 .. n - 1.
SplitLaunch ==
    /\ splitPc = "launch"
    /\ IF revision = "pool"
       THEN /\ sumCalls' = <<SumCall(raysPerPixel)>>
            /\ splitPc' = "run"
       ELSE IF revision = "thread" /\ numberOfThreads < 0
       THEN /\ splitPc' = "terminated"
            /\ UNCHANGED sumCalls
       ELSE /\ sumCalls' =
                  <<SumCall(FirstShare(raysPerPixel, raysPerThread,
                                       numberOfThreads))>>
                  \o [s \in 1 .. (numberOfThreads - 1) |->
                         SumCall(raysPerThread)]
            /\ splitPc' = "run"
    /\ UNCHANGED <<revision, hardware_concurrency, numberOfThreads,
                   raysPerPixel, raysPerThread, traced, resultColour, written>>
    /\ UNCHANGED <<renderVars, rngVars, hitVars, traceVars,
                   scatterVars, cameraVars, sceneVars, poolVars>>

\* sumColour: one evaluation of while (--raysToCalc >= 0) and, when the loop
\* goes on, col += calcColour(currentRay, worldObjects, maxDepth)
SplitSample(s, sample) ==
    /\ splitPc = "run"
    /\ s \in 1 .. Len(sumCalls)
    /\ ~sumCalls[s].done
    /\ LET call == sumCalls[s]
           decremented == call.raysToCalc - 1
       IN  IF CountdownContinues(decremented)
           THEN /\ sumCalls' =
                      [sumCalls EXCEPT ![s] =
                          [call EXCEPT !.raysToCalc = decremented,
                                       !.ran = call.ran + 1,
                                       !.col = QReduced(QPlus(call.col,
                                                              sample))]]
                /\ traced' = traced + 1
           ELSE /\ sumCalls' =
                      [sumCalls EXCEPT ![s] =
                          [call EXCEPT !.raysToCalc = decremented,
                                       !.done = TRUE]]
                /\ sample = Black
                /\ UNCHANGED traced
    /\ UNCHANGED <<splitPc, revision, hardware_concurrency, numberOfThreads,
                   raysPerPixel, raysPerThread, resultColour, written>>
    /\ UNCHANGED <<renderVars, rngVars, hitVars, traceVars,
                   scatterVars, cameraVars, sceneVars, poolVars>>

RECURSIVE SumOfPartials(_, _)
\* for (auto& col : partialColours) resultColour += col
SumOfPartials(calls, n) ==
    IF n = 0 THEN Black
    ELSE QReduced(QPlus(SumOfPartials(calls, n - 1), calls[n].col))

\* every thread was joined (every future was got): the partial colours are
\* added up
SplitJoin ==
    /\ splitPc = "run"
    /\ \A s \in 1 .. Len(sumCalls) : sumCalls[s].done
    /\ resultColour' = SumOfPartials(sumCalls, Len(sumCalls))
    /\ splitPc' = "write"
    /\ UNCHANGED <<revision, hardware_concurrency, numberOfThreads,
                   raysPerPixel, raysPerThread, sumCalls, traced, written>>
    /\ UNCHANGED <<renderVars, rngVars, hitVars, traceVars,
                   scatterVars, cameraVars, sceneVars, poolVars>>

\* writeColour(outImageStream, resultColour, raysPerPixel).  With
\* raysPerPixel = 0 the scale is infinite and the channels are NaN, whose
\* conversion to int has undefined behaviour.
SplitWrite ==
    /\ splitPc = "write"
    /\ IF raysPerPixel = 0
       THEN /\ splitPc' = "undefined"
            /\ UNCHANGED written
       ELSE /\ written' = writeColour(resultColour, raysPerPixel)
            /\ splitPc' = "written"
    /\ UNCHANGED <<revision, hardware_concurrency, numberOfThreads,
                   raysPerPixel, raysPerThread, sumCalls, traced,
                   resultColour>>
    /\ UNCHANGED <<renderVars, rngVars, hitVars, traceVars,
                   scatterVars, cameraVars, sceneVars, poolVars>>

SplitNext ==
    \/ SplitValidate
    \/ SplitDivide
    \/ SplitLaunch
    \/ \E s \in 1 .. (MaxThreads + 1) : \E sample \in SampleColours :
          SplitSample(s, sample)
    \/ SplitJoin
    \/ SplitWrite

SpecSplit == SplitInit /\ [][SplitNext]_vars

(***************************************************************************)
(* SpecCamera: a Camera is constructed, and getCurrentRay is called on it, *)
(* by sumColour for a pixel and a jitter or directly with coordinates of   *)
(* the viewport, and then once more with the same coordinates.  The value  *)
(* tan(theta / 2) of the field of view is an argument of the model, since  *)
(* it is irrational for most angles.                                       *)
(***************************************************************************)
\* Vector3D::vectorProduct
vectorProduct(u, v) ==
    <<u[2] * v[3] - u[3] * v[2],
      u[3] * v[1] - u[1] * v[3],
      u[1] * v[2] - u[2] * v[1]>>
QVectorProduct(p, q) == QVec(vectorProduct(p.v, q.v), p.d * q.d)

\* Vector3D::getUnitVector on a vector of doubles: the zero vector for a
\* vector of length zero, and scaledBy(1 / length) otherwise
QUnitVector(q) ==
    IF lengthSquared(q.v) = 0
    THEN QVec(<<0, 0, 0>>, 1)
    ELSE LET len == RSqrt(QLengthSquared(q))
         IN  QReduced(QScaled(q, Rat(len[2], len[1])))

\* m_lensRadius = m_apertureSize / 2
LensRadiusDefault(aperture) == Rat(1, 20)

LensRadius(aperture) == Reduced(Rat(aperture[1], 2 * aperture[2]))

\* Camera::setupCamera, after the member initialisers of the constructor
setupCamera(args) ==
    LET h == RTimes(args.inFocalLength, args.tanHalfFoV)
        viewportHeight == Reduced(RTimes(Rat(2, 1), h))
        viewportWidth == Reduced(RTimes(args.inRatio, viewportHeight))
        position == QVec(args.inPosition, 1)
        alongViewLine ==
            QUnitVector(QVec(Minus(args.inPosition, args.inLookingAt), 1))
        positiveHorizontal ==
            QUnitVector(QVectorProduct(QVec(args.inUp, 1), alongViewLine))
        positiveVertical ==
            QUnitVector(QVectorProduct(alongViewLine, positiveHorizontal))
        horizontalDirection ==
            QReduced(QScaled(QScaled(positiveHorizontal, viewportWidth),
                             args.inFocusDist))
        verticalDirection ==
            QReduced(QScaled(QScaled(positiveVertical, viewportHeight),
                             args.inFocusDist))
        lowerLeftCorner ==
            QReduced(QMinus(QMinus(QMinus(position,
                                          QScaled(horizontalDirection,
                                                  Rat(1, 2))),
                                   QScaled(verticalDirection, Rat(1, 2))),
                            QScaled(QScaled(alongViewLine, args.inFocalLength),
                                    args.inFocusDist)))
    IN  [made |-> TRUE,
         m_cameraPosition |-> position,
         m_lowerLeftCorner |-> lowerLeftCorner,
         m_horizontalDirection |-> horizontalDirection,
         m_verticalDirection |-> verticalDirection,
         m_alongViewLine |-> alongViewLine,
         m_positiveHorizontal |-> positiveHorizontal,
         m_positiveVertical |-> positiveVertical,
         m_focalLength |-> args.inFocalLength,
         m_focusDistance |-> args.inFocusDist,
         m_apertureSize |-> args.inAperture,
         m_lensRadius |-> LensRadius(args.inAperture)]

\* Camera::getCurrentRay(inputX, inputY), with the value randInUnitDisk()
\* returned during the call
getCurrentRay(camera, inputX, inputY, randInUnitDisk) ==
    LET randDiskVector == QScaled(randInUnitDisk, camera.m_lensRadius)
        apertureOffset ==
            QReduced(QPlus(QScaled(camera.m_positiveHorizontal,
                                   Rat(randDiskVector.v[1], randDiskVector.d)),
                           QScaled(camera.m_positiveVertical,
                                   Rat(randDiskVector.v[2], randDiskVector.d))))
        target ==
            QReduced(QPlus(QPlus(camera.m_lowerLeftCorner,
                                 QScaled(camera.m_horizontalDirection, inputX)),
                           QScaled(camera.m_verticalDirection, inputY)))
    IN  [m_origin |-> QReduced(QPlus(camera.m_cameraPosition, apertureOffset)),
         m_direction |->
            QReduced(QMinus(QMinus(target, camera.m_cameraPosition),
                            apertureOffset))]

\* sumColour: (i + randNumberBetween(0, 1)) / (outImageWidth - 1), likewise
\* for j and outImageHeight
Normalised(pixel, jitter, size) ==
    Reduced(Rat(pixel * jitter[2] + jitter[1], jitter[2] * (size - 1)))

\* Inputs: the cameras, the values of the generators, the coordinates of a
\* direct call.
Poses ==
    {[inPosition |-> <<0, 0, 0>>, inLookingAt |-> <<0, 0, -1>>],
     [inPosition |-> <<0, 3, 4>>, inLookingAt |-> <<0, 0, 0>>]}
Apertures == {Rat(0, 1), Rat(1, 10), Rat(2, 1)}
FocusDistances == {Rat(5, 1), Rat(10, 1)}
TanHalfFoVs == {Rat(1, 2), Rat(1, 1)}
CameraArgs ==
    {[made |-> TRUE, inPosition |-> pose.inPosition,
      inLookingAt |-> pose.inLookingAt, inUp |-> <<0, 1, 0>>,
      inRatio |-> Rat(16, 9), inFocalLength |-> Rat(1, 1),
      tanHalfFoV |-> tanHalf, inAperture |-> aperture,
      inFocusDist |-> focus] :
        pose \in Poses, tanHalf \in TanHalfFoVs, aperture \in Apertures,
        focus \in FocusDistances}
DiskVectors ==
    {QVec(<<0, 0, 0>>, 1), QVec(<<1, 0, 0>>, 2), QVec(<<0, -1, 0>>, 2),
     QVec(<<3, 3, 0>>, 5)}
Jitters == {Rat(0, 1), Rat(1, 2), Rat(9, 10)}
ViewportCoordinates == {Rat(0, 1), Rat(1, 2), Rat(1, 1)}

CameraInit ==
    /\ RenderInit
    /\ m_threads = 0
    /\ HitIdle
    /\ TraceIdle
    /\ RngIdle
    /\ PoolIdle
    /\ SceneIdle
    /\ ScatterIdle
    /\ SplitIdle
    /\ camPc = "construct"
    /\ cameraArgs \in CameraArgs
    /\ simCamera = NoCamera
    /\ camCall = NoRayCall
    /\ camRepeat = NoRayCall

\* Camera simCamera(cameraPosition, cameraLookingAt, ...)
CameraConstruct ==
    /\ camPc = "construct"
    /\ simCamera' = setupCamera(cameraArgs)
    /\ camPc' = "ready"
    /\ UNCHANGED <<cameraArgs, camCall, camRepeat>>
    /\ UNCHANGED <<renderVars, rngVars, hitVars, traceVars,
                   scatterVars, splitVars, sceneVars, poolVars>>

\* sumColour: the coordinates of a ray of pixel (col, row) and
\* simCamera.getCurrentRay(normalisedX, normalisedY)
SumColourRay(col, row, jitterX, jitterY, disk) ==
    /\ camPc = "ready"
    /\ LET normalisedX == Normalised(col, jitterX, Width)
           normalisedY == Normalised(row, jitterY, Height)
       IN  camCall' =
              [made |-> TRUE, sampler |-> TRUE, inputX |-> normalisedX,
               inputY |-> normalisedY, disk |-> disk,
               ray |-> getCurrentRay(simCamera, normalisedX, normalisedY,
                                     disk)]
    /\ camPc' = "called"
    /\ UNCHANGED <<cameraArgs, simCamera, camRepeat>>
    /\ UNCHANGED <<renderVars, rngVars, hitVars, traceVars,
                   scatterVars, splitVars, sceneVars, poolVars>>

\* getCurrentRay(inputX, inputY) called with coordinates of the viewport
CameraGetRay(inputX, inputY, disk) ==
    /\ camPc = "ready"
    /\ camCall' =
          [made |-> TRUE, sampler |-> FALSE, inputX |-> inputX,
           inputY |-> inputY, disk |-> disk,
           ray |-> getCurrentRay(simCamera, inputX, inputY, disk)]
    /\ camPc' = "called"
    /\ UNCHANGED <<cameraArgs, simCamera, camRepeat>>
    /\ UNCHANGED <<renderVars, rngVars, hitVars, traceVars,
                   scatterVars, splitVars, sceneVars, poolVars>>

\* a second call of getCurrentRay with the coordinates of the first
CameraRepeat(disk) ==
    /\ camPc = "called"
    /\ camRepeat' =
          [made |-> TRUE, disk |-> disk,
           ray |-> getCurrentRay(simCamera, camCall.inputX, camCall.inputY,
                                 disk)]
    /\ camPc' = "repeated"
    /\ UNCHANGED <<cameraArgs, simCamera, camCall>>
    /\ UNCHANGED <<renderVars, rngVars, hitVars, traceVars,
                   scatterVars, splitVars, sceneVars, poolVars>>

CameraNext ==
    \/ CameraConstruct
    \/ \E col \in Cols : \E row \in Rows :
          \E jitterX \in Jitters : \E jitterY \in Jitters :
             \E disk \in DiskVectors :
                SumColourRay(col, row, jitterX, jitterY, disk)
    \/ \E inputX \in ViewportCoordinates : \E inputY \in ViewportCoordinates :
          \E disk \in DiskVectors : CameraGetRay(inputX, inputY, disk)
    \/ \E disk \in DiskVectors : CameraRepeat(disk)

SpecCamera == CameraInit /\ [][CameraNext]_vars

(***************************************************************************)
(* SpecScene: main() builds the scene.  The five fixed spheres are added,  *)
(* then the generation loop places random spheres on the ground, drawing   *)
(* a centre up to 50 times until the sphere clips no object of the scene.  *)
(* Lengths are in tenths of a unit, so that the radii 0.1 .. 0.4 and the   *)
(* centres are integers; length() < a + b is compared as lengthSquared <   *)
(* (a + b)^2, both sides being non-negative.                               *)
(***************************************************************************)
\* HittableList::add
add(list, inObject) == Append(list, inObject)

\* Sphere::minDistanceApart and Sphere::getCenter
minDistanceApart(sphere) == sphere.m_radius
getCenter(sphere) == sphere.m_center

\* (sphereCenter - worldObjects[i].getCenter()).length()
\*     < (randomNumberForRadius + worldObjects[i].minDistanceApart())
ClipsIgnoringRadius(center, radius, object) ==
    lengthSquared(Minus(center, getCenter(object)))
        < minDistanceApart(object) * minDistanceApart(object)

Clips(center, radius, object) ==
    lengthSquared(Minus(center, getCenter(object)))
        < (radius + minDistanceApart(object))
          * (radius + minDistanceApart(object))

\* the for loop over worldObjects that sets isClipped
IsClipped(list, center, radius) ==
    \E n \in 1 .. Len(list) : Clips(center, radius, list[n])

\* the material of a generated sphere: mostly diffuse, about 30% metallic,
\* 10% dielectric
SphereMaterial(number) ==
    IF RLess(number, Rat(6, 10)) THEN "Lambertian"
    ELSE IF RLess(number, Rat(9, 10)) THEN "Metal"
    ELSE "Dielectric"

\* the five spheres main adds before the generation loop
FixedSpheres ==
    <<[m_center |-> <<20, 10, 40>>, m_radius |-> 10,
       m_material |-> "Lambertian"],
      [m_center |-> <<0, -10000, -10>>, m_radius |-> 10000,
       m_material |-> "Lambertian"],
      [m_center |-> <<0, 10, 20>>, m_radius |-> 10,
       m_material |-> "Dielectric"],
      [m_center |-> <<0, 10, -20>>, m_radius |-> 10, m_material |-> "Metal"],
      [m_center |-> <<20, 10, -60>>, m_radius |-> 10, m_material |-> "Metal"]>>

\* if (loopCounter > 50) break
PlacementAttempts == 50

\* Inputs: the values randNumberBetween returns.
RandomRadii == {1, 4}
RandomXZs == {<<0, 20>>, <<12, 20>>, <<12, 24>>, <<14, 20>>}
RandomMaterialNumbers == {Rat(1, 2), Rat(7, 10), Rat(19, 20)}

SceneInit ==
    /\ RenderInit
    /\ m_threads = 0
    /\ HitIdle
    /\ TraceIdle
    /\ RngIdle
    /\ PoolIdle
    /\ ScatterIdle
    /\ SplitIdle
    /\ CameraIdle
    /\ scenePc = "generate"
    /\ worldObjects = FixedSpheres
    /\ sphereIdx = 0
    /\ loopCounter = 0
    /\ randomNumberForMaterial = Rat(0, 1)
    /\ randomNumberForRadius = 0
    /\ sphereCenter = <<0, 0, 0>>
    /\ submitted = 0
    /\ finished = 0
    /\ retrieved = 0
    /\ rendered = NoRender

\* for (int i = 0; i < numberOfSpheres; ++i): the draws at the top of the body
SceneBegin(number, radius) ==
    /\ scenePc = "generate"
    /\ sphereIdx < NumberOfSpheres
    /\ randomNumberForMaterial' = number
    /\ randomNumberForRadius' = radius
    /\ loopCounter' = 0
    /\ scenePc' = "place"
    /\ UNCHANGED <<worldObjects, sphereIdx, sphereCenter, submitted, finished,
                   retrieved, rendered>>
    /\ UNCHANGED <<renderVars, rngVars, hitVars, traceVars,
                   scatterVars, splitVars, cameraVars, poolVars>>

\* one pass of while (true): count the attempt, give up after 50, otherwise
\* draw a centre and test it against every object of the scene
ScenePlace(x, z) ==
    /\ scenePc = "place"
    /\ loopCounter' = loopCounter + 1
    /\ IF loopCounter + 1 > PlacementAttempts
       THEN /\ scenePc' = "placed"
            /\ UNCHANGED sphereCenter
       ELSE /\ sphereCenter' = <<x, randomNumberForRadius, z>>
            /\ scenePc' = IF IsClipped(worldObjects,
                                       <<x, randomNumberForRadius, z>>,
                                       randomNumberForRadius)
                          THEN "place" ELSE "placed"
    /\ UNCHANGED <<worldObjects, sphereIdx, randomNumberForMaterial,
                   randomNumberForRadius, submitted, finished, retrieved,
                   rendered>>
    /\ UNCHANGED <<renderVars, rngVars, hitVars, traceVars,
                   scatterVars, splitVars, cameraVars, poolVars>>

\* if (loopCounter > 50) break; else loopCounter = 0; ... worldObjects.add(
\* std::make_shared<Sphere>(sphereCenter, randomNumberForRadius, material))
SceneAdd ==
    /\ scenePc = "placed"
    /\ IF loopCounter > PlacementAttempts
       THEN /\ scenePc' = "populated"
            /\ UNCHANGED <<worldObjects, sphereIdx, loopCounter>>
       ELSE /\ loopCounter' = 0
            /\ worldObjects' =
                  add(worldObjects,
                      [m_center |-> sphereCenter,
                       m_radius |-> randomNumberForRadius,
                       m_material |-> SphereMaterial(randomNumberForMaterial)])
            /\ sphereIdx' = sphereIdx + 1
            /\ scenePc' = "generate"
    /\ UNCHANGED <<randomNumberForMaterial, randomNumberForRadius,
                   sphereCenter, submitted, finished, retrieved, rendered>>
    /\ UNCHANGED <<renderVars, rngVars, hitVars, traceVars,
                   scatterVars, splitVars, cameraVars, poolVars>>

\* i < numberOfSpheres is false: the loop ends
SceneEnd ==
    /\ scenePc = "generate"
    /\ sphereIdx >= NumberOfSpheres
    /\ scenePc' = "populated"
    /\ UNCHANGED <<worldObjects, sphereIdx, loopCounter,
                   randomNumberForMaterial, randomNumberForRadius,
                   sphereCenter, submitted, finished, retrieved, rendered>>
    /\ UNCHANGED <<renderVars, rngVars, hitVars, traceVars,
                   scatterVars, splitVars, cameraVars, poolVars>>

SceneNext ==
    \/ \E number \in RandomMaterialNumbers : \E radius \in RandomRadii :
          SceneBegin(number, radius)
    \/ \E xz \in RandomXZs : ScenePlace(xz[1], xz[2])
    \/ SceneAdd
    \/ SceneEnd

SpecScene == SceneInit /\ [][SceneNext]_vars

(***************************************************************************)
(* SpecFrame: the scene and the camera over a whole render.  main builds   *)
(* the camera and the scene, submits one task per row and gets the         *)
(* futures; a running row task calls getCurrentRay on the camera, isHit on *)
(* the scene and isScattered on the material of the sphere that was hit.   *)
(* The tasks are counted, not told apart: some task is running while fewer *)
(* tasks have finished than were submitted.                                *)
(***************************************************************************)
\* HittableList::isHit is a const member function iterating the list through
\* const references: m_objectList after the call
ListAfterIsHitCleared(list) == <<>>

ListAfterIsHit(list) == list

\* Camera::getCurrentRay is a const member function: the camera after the call
CameraAfterGetRay(camera) == camera

\* Inputs: the cameras of the render and the rays of the queries.
FrameCameras ==
    {args \in CameraArgs :
        /\ args.inPosition = <<0, 0, 0>>
        /\ args.tanHalfFoV = Rat(1, 1)
        /\ args.inFocusDist = Rat(5, 1)}
QueryRays ==
    [m_origin : {<<0, 0, 0>>},
     m_direction : {<<0, 0, -1>>, <<0, 3, -4>>, <<1, 0, 0>>}]

FrameInit ==
    /\ RenderInit
    /\ m_threads = 0
    /\ HitIdle
    /\ TraceIdle
    /\ RngIdle
    /\ PoolIdle
    /\ ScatterIdle
    /\ SplitIdle
    /\ camPc = "idle"
    /\ cameraArgs \in FrameCameras
    /\ simCamera = NoCamera
    /\ camCall = NoRayCall
    /\ camRepeat = NoRayCall
    /\ scenePc = "camera"
    /\ worldObjects = <<>>
    /\ sphereIdx = 0
    /\ loopCounter = 0
    /\ randomNumberForMaterial = Rat(0, 1)
    /\ randomNumberForRadius = 0
    /\ sphereCenter = <<0, 0, 0>>
    /\ submitted = 0
    /\ finished = 0
    /\ retrieved = 0
    /\ rendered = NoRender

\* Camera simCamera(cameraPosition, cameraLookingAt, ...)
FrameCamera ==
    /\ scenePc = "camera"
    /\ simCamera' = setupCamera(cameraArgs)
    /\ scenePc' = "build"
    /\ UNCHANGED <<camPc, cameraArgs, camCall, camRepeat>>
    /\ UNCHANGED <<worldObjects, sphereIdx, loopCounter,
                   randomNumberForMaterial, randomNumberForRadius,
                   sphereCenter, submitted, finished, retrieved, rendered>>
    /\ UNCHANGED <<renderVars, rngVars, hitVars, traceVars,
                   scatterVars, splitVars, poolVars>>

\* worldObjects.add(std::make_shared<Sphere>(...))
FrameAdd(sphere) ==
    /\ scenePc = "build"
    /\ Len(worldObjects) < MaxObjects
    /\ worldObjects' = add(worldObjects, sphere)
    /\ UNCHANGED <<scenePc, sphereIdx, loopCounter, randomNumberForMaterial,
                   randomNumberForRadius, sphereCenter, submitted, finished,
                   retrieved, rendered>>
    /\ UNCHANGED <<renderVars, rngVars, hitVars, traceVars,
                   scatterVars, splitVars, cameraVars, poolVars>>

\* futures.push_back(pool.submit(std::bind(process_row, j)))
FrameSubmit ==
    /\ scenePc \in {"build", "submit"}
    /\ submitted < Height
    /\ submitted' = submitted + 1
    /\ scenePc' = IF submitted + 1 < Height THEN "submit" ELSE "wait"
    /\ UNCHANGED <<worldObjects, sphereIdx, loopCounter,
                   randomNumberForMaterial, randomNumberForRadius,
                   sphereCenter, finished, retrieved, rendered>>
    /\ UNCHANGED <<renderVars, rngVars, hitVars, traceVars,
                   scatterVars, splitVars, cameraVars, poolVars>>

\* sumColour in a row task: simCamera.getCurrentRay(normalisedX, normalisedY)
TaskGetRay(inputX, inputY, disk) ==
    /\ finished < submitted
    /\ rendered' = [op |-> "getCurrentRay",
                    ray |-> getCurrentRay(simCamera, inputX, inputY, disk)]
    /\ simCamera' = CameraAfterGetRay(simCamera)
    /\ UNCHANGED <<camPc, cameraArgs, camCall, camRepeat>>
    /\ UNCHANGED <<scenePc, worldObjects, sphereIdx, loopCounter,
                   randomNumberForMaterial, randomNumberForRadius,
                   sphereCenter, submitted, finished, retrieved>>
    /\ UNCHANGED <<renderVars, rngVars, hitVars, traceVars,
                   scatterVars, splitVars, poolVars>>

\* calcColour in a row task: inObject.isHit(inRay, 0.001, infinity, tempRecord)
TaskQuery(ray) ==
    /\ finished < submitted
    /\ Representable(worldObjects, ray)
    /\ rendered' = [op |-> "isHit", ray |-> ray,
                    res |-> SceneQuery(worldObjects, ray, EmptyRecord)]
    /\ worldObjects' = ListAfterIsHit(worldObjects)
    /\ UNCHANGED <<scenePc, sphereIdx, loopCounter, randomNumberForMaterial,
                   randomNumberForRadius, sphereCenter, submitted, finished,
                   retrieved>>
    /\ UNCHANGED <<renderVars, rngVars, hitVars, traceVars,
                   scatterVars, splitVars, cameraVars, poolVars>>

\* calcColour in a row task, after a hit:
\* tempRecord.m_materialPtr->isScattered(inRay, tempRecord, ...)
TaskScatter ==
    /\ finished < submitted
    /\ rendered.op = "isHit"
    /\ rendered.res.hit
    /\ rendered' =
          [op |-> "isScattered",
           material |-> rendered.res.rec.m_materialPtr,
           ok |-> IsScattered(rendered.res.rec.m_materialPtr, rendered.ray,
                              rendered.res.rec)]
    /\ UNCHANGED <<scenePc, worldObjects, sphereIdx, loopCounter,
                   randomNumberForMaterial, randomNumberForRadius,
                   sphereCenter, submitted, finished, retrieved>>
    /\ UNCHANGED <<renderVars, rngVars, hitVars, traceVars,
                   scatterVars, splitVars, cameraVars, poolVars>>

\* process_row returns
TaskFinish ==
    /\ finished < submitted
    /\ finished' = finished + 1
    /\ UNCHANGED <<scenePc, worldObjects, sphereIdx, loopCounter,
                   randomNumberForMaterial, randomNumberForRadius,
                   sphereCenter, submitted, retrieved, rendered>>
    /\ UNCHANGED <<renderVars, rngVars, hitVars, traceVars,
                   scatterVars, splitVars, cameraVars, poolVars>>

\* fut.get() returns
FrameGet ==
    /\ scenePc = "wait"
    /\ retrieved < finished
    /\ retrieved' = retrieved + 1
    /\ scenePc' = IF retrieved + 1 < Height THEN "wait" ELSE "retrieved"
    /\ UNCHANGED <<worldObjects, sphereIdx, loopCounter,
                   randomNumberForMaterial, randomNumberForRadius,
                   sphereCenter, submitted, finished, rendered>>
    /\ UNCHANGED <<renderVars, rngVars, hitVars, traceVars,
                   scatterVars, splitVars, cameraVars, poolVars>>

FrameNext ==
    \/ FrameCamera
    \/ \E sphere \in TraceSpheres : FrameAdd(sphere)
    \/ FrameSubmit
    \/ \E inputX \in ViewportCoordinates : \E disk \in DiskVectors :
          TaskGetRay(inputX, Rat(1, 2), disk)
    \/ \E ray \in QueryRays : TaskQuery(ray)
    \/ TaskScatter
    \/ TaskFinish
    \/ FrameGet

SpecFrame == FrameInit /\ [][FrameNext]_vars

(***************************************************************************)
(* SpecPool: one dp::thread_pool used through submit() by several threads. *)
(* The pool is default-constructed with hardware_concurrency() workers;    *)
(* its owner lets the submitters push up to MaxTasks tasks and destroys    *)
(* the pool at a moment of its choice, once no submit() call is running.   *)
(* ts_queue takes m_mut for the whole of push and of try_pop, so each is a *)
(* lock step followed by one step that ends with the unlock.               *)
(***************************************************************************)
WorkerOf(w) == <<"worker", w>>
SubmitterOf(s) == <<"submitter", s>>

\* while (!m_done.load(std::memory_order_acquire))
LoopContinuesAlways(done) == TRUE

LoopContinues(done) == ~done

\* m_dat.pop() of try_pop: the queue after the front element left it
PopKeepsFront(queue) == queue

Pop(queue) == Tail(queue)

\* ts_queue::try_pop with m_mut held
try_pop(queue, out) ==
    IF queue = <<>>
    THEN [ret |-> FALSE, in_val |-> out, m_dat |-> queue]
    ELSE [ret |-> TRUE, in_val |-> Head(queue), m_dat |-> Pop(queue)]

PoolInit ==
    /\ RenderInit
    /\ RngIdle
    /\ PoolIdle
    /\ HitIdle
    /\ TraceIdle
    /\ ScatterIdle
    /\ SplitIdle
    /\ CameraIdle
    /\ SceneIdle

\* submit(): std::packaged_task task{ std::move(in_func) }; task.get_future();
\* m_queue.push(std::move(task)): auto lck{ std::lock_guard{m_mut} }
PushLock(s) ==
    /\ mainPc = "submit"
    /\ spc[s] = "idle"
    /\ created < MaxTasks
    /\ m_mut = NoHolder
    /\ created' = created + 1
    /\ in_val' = [in_val EXCEPT ![s] = created + 1]
    /\ m_mut' = SubmitterOf(s)
    /\ spc' = [spc EXCEPT ![s] = "push"]
    /\ UNCHANGED <<pushed, popped, executed, lateRuns, tryResult>>
    /\ UNCHANGED <<renderVars, rngVars, hitVars, traceVars, scatterVars,
                   splitVars, cameraVars, sceneVars>>

\* ts_queue::push: m_dat.push(std::move(in_val)); notify_one; unlock; and
\* submit returns the future
PushBody(s) ==
    /\ spc[s] = "push"
    /\ m_mut = SubmitterOf(s)
    /\ m_queue' = Append(m_queue, in_val[s])
    /\ pushed' = Append(pushed, in_val[s])
    /\ in_val' = [in_val EXCEPT ![s] = NoTask]
    /\ m_mut' = NoHolder
    /\ spc' = [spc EXCEPT ![s] = "idle"]
    /\ UNCHANGED <<created, popped, executed, lateRuns, tryResult>>
    /\ UNCHANGED <<mainPc, j, futures, futIdx, pixels, writers, output, thrown,
                   m_done, m_threads, joinIdx, wpc, current_task, i>>
    /\ UNCHANGED <<rngVars, hitVars, traceVars, scatterVars,
                   splitVars, cameraVars, sceneVars>>

\* The owner leaves the scope of the pool: ~thread_pool() is called.
PoolRelease ==
    /\ mainPc = "submit"
    /\ \A s \in Submitters : spc[s] = "idle"
    /\ mainPc' = "destroy"
    /\ UNCHANGED <<j, futures, futIdx, pixels, writers, output, thrown,
                   m_done, m_queue, m_threads, joinIdx, wpc, current_task, i>>
    /\ UNCHANGED <<rngVars, hitVars, traceVars, scatterVars,
                   splitVars, cameraVars, sceneVars, poolVars>>

\* while (!m_done.load(...)) { move_function_wrapper current_task;
PoolWorkerLoop(w) ==
    /\ wpc[w] = "loop"
    /\ IF LoopContinues(m_done)
       THEN /\ wpc' = [wpc EXCEPT ![w] = "lock"]
            /\ current_task' = [current_task EXCEPT ![w] = NoTask]
            /\ tryResult' = [tryResult EXCEPT ![w] = "none"]
       ELSE /\ wpc' = [wpc EXCEPT ![w] = "exited"]
            /\ UNCHANGED <<current_task, tryResult>>
    /\ UNCHANGED <<m_mut, spc, in_val, created, pushed, popped, executed,
                   lateRuns>>
    /\ UNCHANGED <<mainPc, j, futures, futIdx, pixels, writers, output, thrown,
                   m_done, m_queue, m_threads, joinIdx, i>>
    /\ UNCHANGED <<rngVars, hitVars, traceVars, scatterVars,
                   splitVars, cameraVars, sceneVars>>

\* ts_queue::try_pop: auto lck{ std::lock_guard{m_mut} }
TryPopLock(w) ==
    /\ wpc[w] = "lock"
    /\ m_mut = NoHolder
    /\ m_mut' = WorkerOf(w)
    /\ wpc' = [wpc EXCEPT ![w] = "pop"]
    /\ UNCHANGED <<spc, in_val, created, pushed, popped, executed, lateRuns,
                   tryResult>>
    /\ UNCHANGED <<mainPc, j, futures, futIdx, pixels, writers, output, thrown,
                   m_done, m_queue, m_threads, joinIdx, current_task, i>>
    /\ UNCHANGED <<rngVars, hitVars, traceVars, scatterVars,
                   splitVars, cameraVars, sceneVars>>

\* ts_queue::try_pop: the body and the unlock; worker_thread branches on the
\* value returned (std::this_thread::yield() when it is false)
TryPopBody(w) ==
    /\ wpc[w] = "pop"
    /\ m_mut = WorkerOf(w)
    /\ LET res == try_pop(m_queue, current_task[w])
       IN  /\ m_queue' = res.m_dat
           /\ current_task' = [current_task EXCEPT ![w] = res.in_val]
           /\ tryResult' = [tryResult EXCEPT
                              ![w] = IF res.ret THEN "true" ELSE "false"]
           /\ popped' = IF res.ret THEN Append(popped, res.in_val)
                                   ELSE popped
           /\ wpc' = [wpc EXCEPT ![w] = IF res.ret THEN "run" ELSE "loop"]
    /\ m_mut' = NoHolder
    /\ UNCHANGED <<spc, in_val, created, pushed, executed, lateRuns>>
    /\ UNCHANGED <<mainPc, j, futures, futIdx, pixels, writers, output, thrown,
                   m_done, m_threads, joinIdx, i>>
    /\ UNCHANGED <<rngVars, hitVars, traceVars, scatterVars,
                   splitVars, cameraVars, sceneVars>>

\* current_task(): the body of the task runs to its end and the
\* packaged_task makes the future ready
PoolWorkerRun(w) ==
    /\ wpc[w] = "run"
    /\ executed' = [executed EXCEPT ![current_task[w]] = @ + 1]
    /\ lateRuns' = [lateRuns EXCEPT ![w] = IF m_done THEN @ + 1 ELSE @]
    /\ wpc' = [wpc EXCEPT ![w] = "loop"]
    /\ UNCHANGED <<m_mut, spc, in_val, created, pushed, popped, tryResult>>
    /\ UNCHANGED <<mainPc, j, futures, futIdx, pixels, writers, output, thrown,
                   m_done, m_queue, m_threads, joinIdx, current_task, i>>
    /\ UNCHANGED <<rngVars, hitVars, traceVars, scatterVars,
                   splitVars, cameraVars, sceneVars>>

PoolWorker(w) ==
    PoolWorkerLoop(w) \/ TryPopLock(w) \/ TryPopBody(w) \/ PoolWorkerRun(w)

Destructor == PoolDestroy \/ PoolJoin \/ PoolJoined

PoolNext ==
    \/ \E s \in Submitters : PushLock(s)
    \/ \E s \in Submitters : PushBody(s)
    \/ PoolRelease
    \/ PoolDestroy
    \/ PoolJoin
    \/ PoolJoined
    \/ \E w \in Threads : PoolWorkerLoop(w)
    \/ \E w \in Threads : TryPopLock(w)
    \/ \E w \in Threads : TryPopBody(w)
    \/ \E w \in Threads : PoolWorkerRun(w)

SpecPool == PoolInit /\ [][PoolNext]_vars

\* Fair scheduling: a thread that can take its next step takes it, and a
\* thread that keeps asking for m_mut gets it, so the submitters go on until
\* all their tasks are pushed (main submits every row).  When the owner
\* destroys the pool is up to the owner.
PoolFairness ==
    /\ \A w \in Threads :
          /\ WF_vars(PoolWorkerLoop(w) \/ TryPopBody(w) \/ PoolWorkerRun(w))
          /\ SF_vars(TryPopLock(w))
    /\ \A s \in Submitters : WF_vars(PushBody(s)) /\ SF_vars(PushLock(s))
    /\ WF_vars(Destructor)

SpecPoolFair == SpecPool /\ PoolFairness







(***************************************************************************)
(* Properties of the thread-pool render (specification Spec).              *)
(***************************************************************************)
\* The body of the task of row r has run to its end: every pixel of the row
\* has been stored and no worker is still inside process_row for it.
RowComplete(r) ==
    /\ \A col \in Cols :
          \E p \in 1 .. Len(writers[Width * (Height - r - 1) + col]) :
              writers[Width * (Height - r - 1) + col][p] = r
    /\ \A w \in Threads : ~(wpc[w] = "run" /\ current_task[w] = r)

OutputStarted ==
    \/ mainPc \in {"header", "write", "destroy", "join", "exit"}
    \/ output # <<>>

\* C1: no two row tasks ever write the same cell of the pixel buffer: all
\* stores into one cell come from a single row task, and two workers that
\* are inside process_row at the same time are about to store into different
\* cells, under every interleaving.
C1_NoSharedCell ==
    /\ \A c \in Cells : \A p, q \in 1 .. Len(writers[c]) :
          writers[c][p] = writers[c][q]
    /\ \A w1, w2 \in Threads :
          (/\ w1 # w2
           /\ wpc[w1] = "run" /\ wpc[w2] = "run"
           /\ i[w1] < Width /\ i[w2] < Width)
          => CellIndex(i[w1], current_task[w1])
               # CellIndex(i[w2], current_task[w2])

\* Two workers are inside different row tasks at once, each having stored a
\* pixel already.
C1_Witness ==
    \E w1, w2 \in Threads :
        /\ w1 # w2
        /\ wpc[w1] = "run" /\ wpc[w2] = "run"
        /\ current_task[w1] # current_task[w2]
        /\ i[w1] >= 1 /\ i[w2] >= 1

\* C2: the main thread does not start serialising (header or pixel) before
\* every submitted row task has finished: get() on the future of a row
\* returns only after the body of that row's task completed, and main has
\* called get() on every future before it opens the output.
C2_WaitsForAllRows ==
    /\ \A r \in Rows : r < futIdx => RowComplete(r)
    /\ OutputStarted => (futIdx = Height /\ \A r \in Rows : RowComplete(r))

\* Main has written the header and at least one pixel.
C2_Witness == mainPc = "write" /\ Len(output) >= 2

\* C4: if any row task throws, the render is aborted and no image is
\* written: the failure reaches main at get() of that row's future, and the
\* output is never produced from a buffer with unfinished or failed rows.
C4_FailureAborts ==
    /\ thrown # {} => (output = <<>> /\ ~OutputStarted)
    /\ mainPc = "aborted" => (futIdx \in thrown)
    /\ OutputStarted => \A r \in Rows : RowComplete(r) /\ r \notin thrown

\* A row task threw and main was terminated by the rethrown exception after
\* it had retrieved an earlier row's result.
C4_Witness == mainPc = "aborted" /\ thrown # {} /\ futIdx >= 1

\* C5: after all row tasks complete, in whatever order they ran, every cell
\* has been written exactly once, cell width*(height-1-j)+i holds the sum of
\* pixel (i,j), and the serialised buffer lists the pixels row-major from
\* the top image row (j = height-1) to the bottom row, left to right, with
\* exactly width*height pixel lines after the header.
C5_BufferAndOrder ==
    /\ (\A r \in Rows : futures[r] = "ready") =>
          /\ \A c \in Cells : Len(writers[c]) = 1
          /\ \A col \in Cols : \A row \in Rows :
                pixels[Width * (Height - 1 - row) + col] = <<col, row>>
    /\ \A k \in 2 .. Len(output) :
          output[k] = <<(k - 2) % Width, Height - 1 - ((k - 2) \div Width)>>
    /\ mainPc \in {"destroy", "join", "exit"} =>
          Len(output) = 1 + Width * Height

\* All row tasks completed and the whole image has been serialised.
C5_Witness ==
    /\ mainPc = "exit"
    /\ Len(output) = 1 + Width * Height
    /\ output[2] = <<0, Height - 1>>

(***************************************************************************)
(* Properties of the generators (specification SpecRng).                   *)
(***************************************************************************)
\* C3: no random-number generator state is ever accessed by two worker
\* threads at the same time: no two workers are inside a draw from the same
\* generator instance (a thread-local instance belongs to one worker, and a
\* lock-guarded one admits one worker at a time).
C3_NoRngRace ==
    \A w1, w2 \in Threads :
        (w1 # w2 /\ inGen[w1] # NoGenerator) => inGen[w1] # inGen[w2]

(***************************************************************************)
(* Properties of the scene query (specification SpecHit).                  *)
(***************************************************************************)
\* What object n reports for the original range of the query.
Reports(n) == SphereIsHit(m_objectList[n], inRay, t_min, t_max, EmptyRecord)
Hitters == {n \in 1 .. Len(m_objectList) : Reports(n).hit}
ParamOf(n) == Reports(n).rec.m_interval

\* C6: the scene query returns a hit iff at least one object reports a hit
\* in the queried range, and then the returned t is the minimum over all
\* objects of the t each reports for the original range (so it does not
\* depend on the order of the objects).
C6_NearestHit ==
    hitPc = "returned" =>
        /\ isHitAnything <=> (Hitters # {})
        /\ isHitAnything =>
              /\ \A n \in Hitters : RLeq(inRec.m_interval, ParamOf(n))
              /\ \E n \in Hitters : REq(inRec.m_interval, ParamOf(n))

\* The query returned after the scan met a farther object before a nearer
\* one.
C6_Witness ==
    /\ hitPc = "returned"
    /\ isHitAnything
    /\ \E n1, n2 \in Hitters : n1 < n2 /\ RLess(ParamOf(n2), ParamOf(n1))

QuadA == lengthSquared(inRay.m_direction)
QuadH ==
    innerProduct(Minus(inRay.m_origin, m_objectList[lastCall.obj].m_center),
                 inRay.m_direction)
QuadC ==
    lengthSquared(Minus(inRay.m_origin, m_objectList[lastCall.obj].m_center))
      - m_objectList[lastCall.obj].m_radius
          * m_objectList[lastCall.obj].m_radius
RootBound ==
    1 + (IF Abs(2 * QuadH) > Abs(QuadA * QuadC)
         THEN Abs(2 * QuadH) ELSE Abs(QuadA * QuadC))
Roots ==
    {T \in (-RootBound) .. RootBound :
        T * T + 2 * QuadH * T + QuadA * QuadC = 0}
Least(S) == CHOOSE T \in S : \A U \in S : T <= U
Greatest(S) == CHOOSE T \in S : \A U \in S : U <= T
InQueried(T) ==
    /\ RLeq(t_min, Rat(T, QuadA))
    /\ RLeq(Rat(T, QuadA), lastCall.t_max)

OutwardOf(rec) ==
    QVec(Minus(rec.m_point.v,
               scaledBy(m_objectList[lastCall.obj].m_center, rec.m_point.d)),
         rec.m_point.d * m_objectList[lastCall.obj].m_radius)

crossProduct(u, v) ==
    <<u[2] * v[3] - u[3] * v[2], u[3] * v[1] - u[1] * v[3],
      u[1] * v[2] - u[2] * v[1]>>

\* The call was made with the ray starting at the centre of the sphere and
\* a lower bound of 0.
FromCentre ==
    /\ hitPc = "called"
    /\ inRay.m_origin = m_objectList[1].m_center
    /\ REq(t_min, Rat(0, 1))

\* The stored normal is anti-parallel to the direction of the ray.
NormalAgainstRay ==
    /\ ~tempRecord.m_frontFace
    /\ crossProduct(tempRecord.m_normal.v, inRay.m_direction) = <<0, 0, 0>>
    /\ innerProduct(tempRecord.m_normal.v, inRay.m_direction) < 0

IsBlack(col) == col.v = <<0, 0, 0>> /\ col.d > 0

\* C13: calcColour returns black whenever the depth budget runs out: a call
\* with inDepth <= 0 returns (0,0,0) without querying the scene, for every
\* ray and scene, and a chain that hit and scattered on each of its first d
\* bounces when started with inDepth = d returns black overall.
C13_DepthExhaustedIsBlack ==
    /\ (tracePc \in {"return", "done"} /\ firstDepth <= 0) =>
          /\ IsBlack(retColour)
          /\ nQueries = 0 /\ nScatters = 0
    /\ (tracePc \in {"return", "done"} /\ firstDepth > 0
          /\ nScatters = firstDepth) => IsBlack(retColour)
    /\ (tracePc = "enter" /\ traceDepth <= 0) =>
          Len(frames) = (IF firstDepth > 0 THEN firstDepth ELSE 0)

\* A call with inDepth = 1 hit a Lambertian sphere, scattered, and the call
\* for the scattered ray has returned black because the budget ran out.
C13_Witness ==
    /\ firstDepth = 1
    /\ tracePc = "return"
    /\ Len(frames) = 1
    /\ scatterOf = "Lambertian"
    /\ nScatters = 1
    /\ IsBlack(retColour)

\* Steps still to be taken by the outermost call in the worst case.
Rank ==
    CASE tracePc \in {"enter", "scatter"} ->
             4 * (IF traceDepth > 0 THEN traceDepth ELSE 0) + Len(frames)
               + (IF tracePc = "enter" THEN 3 ELSE 2)
      [] tracePc = "return" -> 1 + Len(frames)
      [] OTHER -> 0

\* C14: calcColour always terminates: every step strictly decreases a
\* natural-number rank, each call it makes to itself passes inDepth reduced
\* by exactly one, and a call with inDepth = d performs at most d scene
\* queries and at most d isScattered invocations.
C14_Terminates ==
    [][/\ Rank' < Rank
       /\ Rank' >= 0
       /\ Len(frames') = Len(frames) + 1 =>
             /\ traceDepth' = traceDepth - 1
             /\ traceDepth > 0
       /\ nQueries' <= (IF firstDepth > 0 THEN firstDepth ELSE 0)
       /\ nScatters' <= (IF firstDepth > 0 THEN firstDepth ELSE 0)
       /\ nScatters' <= nQueries']_vars

\* A call with inDepth = 2 has used up its budget of two scene queries and
\* two isScattered invocations and has returned.
C14_Witness ==
    /\ tracePc = "done"
    /\ firstDepth = 2
    /\ nQueries = 2
    /\ nScatters = 2

\* C15: on a hit with inDepth > 0 calcColour invokes isScattered of the
\* material of the nearest hit object exactly once; if it reports absorption
\* the call returns black and traces no further ray; otherwise the call
\* returns the element-wise product of the attenuation with what
\* calcColour(scatteredRay, inObject, inDepth - 1) returned.
C15_ScatterOnceAndAttenuate ==
    [][/\ (tracePc = "scatter") =>
             /\ nScatters' = nScatters + 1
             /\ scatterOf' =
                  SceneQuery(m_objectList, inRay, EmptyRecord).rec.m_materialPtr
             /\ \/ /\ tracePc' = "return"
                   /\ IsBlack(retColour')
                   /\ UNCHANGED <<nQueries, frames>>
                \/ /\ tracePc' = "enter"
                   /\ traceDepth' = traceDepth - 1
                   /\ Len(frames') = Len(frames) + 1
                   /\ frames'[Len(frames')].attenuationColour
                         = AlbedoOf(scatterOf')
       /\ (tracePc # "scatter") => nScatters' = nScatters
       /\ (tracePc = "return" /\ tracePc' = "return") =>
             LET att == frames[Len(frames)].attenuationColour
             IN  /\ \A c \in 1 .. 3 :
                       retColour'.v[c] * (retColour.d * att.d)
                         = (retColour.v[c] * att.v[c]) * retColour'.d
                 /\ retColour'.d > 0
                 /\ UNCHANGED <<nQueries, nScatters>>
       /\ (tracePc \in {"enter", "scatter"}) => nScatters = Len(frames)]_vars

\* A call hit a Lambertian sphere, the scattered ray left the scene, and the
\* call returned the background colour scaled by the attenuation.
C15_Witness ==
    /\ tracePc = "done"
    /\ nScatters = 1
    /\ nQueries = 2
    /\ scatterOf = "Lambertian"
    /\ ~IsBlack(retColour)
    /\ retColour.v[3] * 2 = retColour.d

\* The gradient (1-t)*white + t*(0.5,0.7,1.0) with t = 0.5*(y+1) for the
\* unit direction's y = dir[2] / len, over the denominator 20 * len.
Gradient(dir, len) ==
    QVec(<<5 * (3 * len - dir[2]), 17 * len - 3 * dir[2], 20 * len>>, 20 * len)

\* C16: when the scene query finds no hit and inDepth > 0, calcColour
\* returns exactly the background gradient of the ray's direction, invokes
\* no isScattered and draws from no generator; for a scene with zero objects
\* the outermost call returns the gradient.
C16_BackgroundOnMiss ==
    [][/\ (tracePc = "enter" /\ tracePc' = "return" /\ traceDepth > 0) =>
             /\ ~SceneQuery(m_objectList, inRay, EmptyRecord).hit
             /\ \E len \in 1 .. 5 :
                   /\ len * len = lengthSquared(inRay.m_direction)
                   /\ QEq(retColour', Gradient(inRay.m_direction, len))
             /\ UNCHANGED <<nScatters, scatterOf, inRay, rngVars>>
       /\ (tracePc = "enter" /\ traceDepth > 0 /\ m_objectList = <<>>) =>
             tracePc' = "return"
       /\ (tracePc' = "done" /\ m_objectList = <<>> /\ firstDepth > 0) =>
             /\ nQueries' = 1 /\ nScatters' = 0
             /\ \E len \in 1 .. 5 :
                   /\ len * len = lengthSquared(inRay.m_direction)
                   /\ QEq(retColour', Gradient(inRay.m_direction, len))]_vars

\* The outermost call on a scene with zero objects returned (0.6, 0.76, 1)
\* for the direction (0, 3, -4).
C16_Witness ==
    /\ tracePc = "done"
    /\ m_objectList = <<>>
    /\ inRay.m_direction = <<0, 3, -4>>
    /\ QEq(retColour, QVec(<<60, 76, 100>>, 100))

(***************************************************************************)
(* Properties of the materials (specification SpecScatter).                *)
(***************************************************************************)
\* C17: whenever Metal::isScattered reports success for a stored fuzz in
\* [0,1], the reflected direction has a positive dot product with the hit
\* normal and so has the direction of the scattered ray that is returned:
\* dot(scatteredRay.direction, normal) > 0.
C17_ScatteredLeavesSurface ==
    (/\ scatterPc = "returned"
     /\ materialObj.kind = "Metal"
     /\ RLeq(Rat(0, 1), materialObj.m_fuzz)
     /\ RLeq(materialObj.m_fuzz, Rat(1, 1))
     /\ scattered.ok) =>
        /\ RLess(Rat(0, 1),
                 QInner(smoothReflect(getUnitVector(inRay.m_direction),
                                      tempRecord.m_normal),
                        tempRecord.m_normal))
        /\ RLess(Rat(0, 1), QInner(scattered.direction, tempRecord.m_normal))

\* C18: for every fuzz passed to the Metal constructor, negative values and
\* values above 1 included, the stored fuzz lies in [0,1].
C18_FuzzClamped ==
    (scatterPc # "construct" /\ materialObj.kind = "Metal") =>
        /\ RLeq(Rat(0, 1), materialObj.m_fuzz)
        /\ RLeq(materialObj.m_fuzz, Rat(1, 1))

\* C19: absorption can come only from Metal: Lambertian and Dielectric
\* isScattered always report success and return one scattered ray that
\* starts at the hit point; Lambertian with the attenuation equal to its
\* albedo and a non-zero direction (normal + random unit vector, or the
\* normal when that sum is zero), Dielectric with white attenuation and the
\* direction of exactly one of reflect or refract.
C19_OnlyMetalAbsorbs ==
    scatterPc = "returned" =>
        /\ ~scattered.ok => materialObj.kind = "Metal"
        /\ materialObj.kind \in {"Lambertian", "Dielectric"} =>
              /\ scattered.ok
              /\ scattered.origin = tempRecord.m_point
        /\ materialObj.kind = "Lambertian" =>
              LET sum == QPlus(tempRecord.m_normal, drawn.sphere)
              IN  /\ scattered.inColourAtten = materialObj.m_albedoColour
                  /\ scattered.direction.v # <<0, 0, 0>>
                  /\ scattered.direction.d > 0
                  /\ sum.v # <<0, 0, 0>> => QEq(scattered.direction, sum)
                  /\ sum.v = <<0, 0, 0>> =>
                        QEq(scattered.direction, tempRecord.m_normal)
        /\ materialObj.kind = "Dielectric" =>
              /\ QEq(scattered.inColourAtten, QVec(<<1, 1, 1>>, 1))
              /\ scattered.reflects =>
                    QEq(scattered.direction,
                        QReduced(smoothReflect(
                            getUnitVector(inRay.m_direction),
                            tempRecord.m_normal)))
              /\ ~scattered.reflects =>
                    QEq(scattered.direction,
                        refract(inRay.m_direction, tempRecord.m_normal,
                                RefractionRatio(materialObj, tempRecord)))

\* A Lambertian sphere was hit head-on and the random unit vector drawn was
\* the negated normal: the scattered ray leaves along the normal.
C19_Witness ==
    /\ scatterPc = "returned"
    /\ materialObj.kind = "Lambertian"
    /\ QPlus(tempRecord.m_normal, drawn.sphere).v = <<0, 0, 0>>
    /\ scattered.ok
    /\ QEq(scattered.direction, tempRecord.m_normal)

\* C20: Dielectric::isScattered computes cosTheta as
\* min(dot(normal, -unitDirection), 1) from the normalised direction of the
\* incoming ray and forbids refraction exactly when
\* refractionRatio * sinTheta > 1, so the decision for a ray is the decision
\* for the ray of unit direction along it.
C20_CosFromUnitDirection ==
    (scatterPc = "returned" /\ materialObj.kind = "Dielectric") =>
        LET unitCos == CosThetaOf(getUnitVector(inRay.m_direction),
                                  tempRecord)
        IN  /\ REq(scattered.cosTheta, unitCos)
            /\ scattered.refractionForbidden
                  <=> RefractionForbidden(
                          RefractionRatio(materialObj, tempRecord), unitCos)

(***************************************************************************)
(* C22.  For every pixel exactly raysPerPixel rays are traced before the   *)
(* sum is handed to writeColour: each call of sumColour runs the body of   *)
(* its countdown loop exactly raysToCalc times, the pool revision makes    *)
(* one call with raysPerPixel, and in the revisions that split the rays    *)
(* the first call gets raysPerPixel / n + raysPerPixel % n and each other  *)
(* call raysPerPixel / n, which add up to raysPerPixel for every           *)
(* numberOfThreads n >= 1.                                                 *)
(***************************************************************************)
RECURSIVE GivenUpTo(_)
GivenUpTo(n) == IF n = 0 THEN 0 ELSE GivenUpTo(n - 1) + sumCalls[n].given

C22_RaysAddUp ==
    (revision = "pool" \/ numberOfThreads >= 1) =>
        /\ splitPc \in {"run", "write", "written"} =>
              /\ Len(sumCalls) = numberOfThreads
              /\ GivenUpTo(Len(sumCalls)) = raysPerPixel
              /\ sumCalls[1].given =
                    (raysPerPixel \div numberOfThreads)
                    + (raysPerPixel % numberOfThreads)
              /\ \A s \in 2 .. Len(sumCalls) :
                    sumCalls[s].given = raysPerPixel \div numberOfThreads
              /\ \A s \in 1 .. Len(sumCalls) :
                    /\ sumCalls[s].ran <= sumCalls[s].given
                    /\ sumCalls[s].done => sumCalls[s].ran = sumCalls[s].given
        /\ splitPc \in {"write", "written"} => traced = raysPerPixel

\* Three rays were split two and one over two threads, and all were traced.
C22_Witness ==
    /\ splitPc = "written"
    /\ revision = "thread"
    /\ numberOfThreads = 2
    /\ raysPerPixel = 3
    /\ sumCalls[1].ran = 2
    /\ sumCalls[2].ran = 1
    /\ traced = 3

(***************************************************************************)
(* C23.  For every accumulated colour with non-negative channel sums and   *)
(* every samplesPerPixel >= 1, each of the three integers writeColour      *)
(* writes for the pixel lies in 0 .. 255.                                  *)
(***************************************************************************)
C23_BytesInRange ==
    splitPc = "written" =>
        /\ raysPerPixel >= 1
        /\ Len(written) = 3
        /\ \A n \in 1 .. 3 : written[n] \in 0 .. 255

\* A pixel whose every ray returned white is written as 255 255 255, and a
\* pixel with a darker channel was written too.
C23_Witness ==
    /\ splitPc = "written"
    /\ raysPerPixel >= 2
    /\ resultColour.v[1] = raysPerPixel * resultColour.d
    /\ written = <<255, 255, 255>>

(***************************************************************************)
(* C26.  In the revisions that take a configured thread count, the value   *)
(* of numberOfThreads that divides raysPerPixel and counts the launched    *)
(* workers is at least 1 and at most hardware_concurrency(): a requested   *)
(* value below 1 has been replaced by the default.                         *)
(***************************************************************************)
C26_ThreadsValidated ==
    (revision # "pool" /\ splitPc \notin {"idle", "validate"}) =>
        /\ numberOfThreads >= 1
        /\ numberOfThreads <= hardware_concurrency

(***************************************************************************)
(* C21.  For a camera with aperture 0, getCurrentRay has no jitter: for    *)
(* every lens sample the ray's origin is the camera position and origin +  *)
(* direction is lowerLeftCorner + u * horizontal + v * vertical, so the    *)
(* ray for (0.5, 0.5) points from the camera position to the centre of     *)
(* the viewport, and two calls with the same (u, v) return the same ray.   *)
(***************************************************************************)
\* The point of the viewport with coordinates (u, v).
ViewportPoint(u, v) ==
    QPlus(QPlus(simCamera.m_lowerLeftCorner,
                QScaled(simCamera.m_horizontalDirection, u)),
          QScaled(simCamera.m_verticalDirection, v))

\* The centre of the viewport: focalLength * focusDistance along the line
\* from the position to the point the camera looks at.
ViewportCentre ==
    LET towards ==
            QUnitVector(QVec(Minus(cameraArgs.inLookingAt,
                                   cameraArgs.inPosition), 1))
    IN  QPlus(QVec(cameraArgs.inPosition, 1),
              QScaled(towards, RTimes(cameraArgs.inFocalLength,
                                      cameraArgs.inFocusDist)))

NoJitter(call) ==
    /\ QEq(call.ray.m_origin, QVec(cameraArgs.inPosition, 1))
    /\ QEq(QPlus(call.ray.m_origin, call.ray.m_direction),
           ViewportPoint(camCall.inputX, camCall.inputY))
    /\ (camCall.inputX = Rat(1, 2) /\ camCall.inputY = Rat(1, 2)) =>
          QEq(QPlus(call.ray.m_origin, call.ray.m_direction), ViewportCentre)

C21_NoJitter ==
    (camPc \in {"called", "repeated"} /\ cameraArgs.inAperture[1] = 0) =>
        /\ NoJitter(camCall)
        /\ camPc = "repeated" =>
              /\ NoJitter(camRepeat)
              /\ camRepeat.ray = camCall.ray

\* getCurrentRay(0.5, 0.5) was called twice on a camera with aperture 0 that
\* looks down at the origin, with two different lens samples off the axis.
C21_Witness ==
    /\ camPc = "repeated"
    /\ cameraArgs.inAperture[1] = 0
    /\ cameraArgs.inPosition = <<0, 3, 4>>
    /\ camCall.inputX = Rat(1, 2)
    /\ camCall.inputY = Rat(1, 2)
    /\ camCall.disk = QVec(<<1, 0, 0>>, 2)
    /\ camRepeat.disk = QVec(<<3, 3, 0>>, 5)

(***************************************************************************)
(* C29.  Every call sumColour makes to getCurrentRay passes coordinates in *)
(* the camera's domain: for every pixel (i, j) of the image and every      *)
(* jitter in [0, 1], (i + jitter) / (width - 1) and (j + jitter) /         *)
(* (height - 1) both lie in [0, 1].                                        *)
(***************************************************************************)
InUnitInterval(x) == RLeq(Rat(0, 1), x) /\ RLeq(x, Rat(1, 1))

C29_CoordinatesInDomain ==
    (camPc \in {"called", "repeated"} /\ camCall.sampler) =>
        /\ InUnitInterval(camCall.inputX)
        /\ InUnitInterval(camCall.inputY)

(***************************************************************************)
(* C25.  Scene population keeps the spheres from overlapping: every        *)
(* generated sphere in the scene has its centre at a distance of at least  *)
(* its radius plus minDistanceApart of the other object from every object  *)
(* that was in the scene when it was added, and a sphere for which 50      *)
(* placement attempts all clip is not added and ends the generation.       *)
(***************************************************************************)
\* The squared distance between the centres of objects n and k.
CentresApart(n, k) ==
    lengthSquared(Minus(worldObjects[n].m_center, worldObjects[k].m_center))

C25_Separated ==
    \A n \in (Len(FixedSpheres) + 1) .. Len(worldObjects) :
        \A k \in 1 .. (n - 1) :
            CentresApart(n, k) >=
                (worldObjects[n].m_radius + worldObjects[k].m_radius)
                * (worldObjects[n].m_radius + worldObjects[k].m_radius)

C25_GivesUp ==
    [][(scenePc = "placed" /\ loopCounter > PlacementAttempts) =>
          (scenePc' = "populated" /\ worldObjects' = worldObjects)
      ]_vars

C25_NoOverlap == []C25_Separated /\ C25_GivesUp

\* A sphere of radius 0.4 was added that exactly touches the third fixed
\* sphere, and the generation then ended because 50 attempts for the next
\* sphere all clipped.
C25_Witness ==
    /\ scenePc = "populated"
    /\ loopCounter = PlacementAttempts + 1
    /\ Len(worldObjects) = Len(FixedSpheres) + 1
    /\ worldObjects[Len(worldObjects)].m_radius = 4
    /\ CentresApart(Len(worldObjects), 3) = (4 + 10) * (4 + 10)

(***************************************************************************)
(* C24.  Rendering never mutates the scene or the camera: from the first   *)
(* task submission to the last future retrieval no step (hit query,        *)
(* scatter call, getCurrentRay call, return of a row task, submission,     *)
(* retrieval) changes the object list, any sphere of it, or the members    *)
(* of the camera.                                                          *)
(***************************************************************************)
Rendering == submitted >= 1 /\ scenePc # "retrieved"

C24_SceneAndCameraFrozen ==
    [][Rendering => (worldObjects' = worldObjects /\ simCamera' = simCamera)
      ]_vars

\* Every future was retrieved after tasks used the camera of a scene of two
\* spheres, queried the scene and called isScattered for a sphere of it.
C24_Witness ==
    /\ scenePc = "retrieved"
    /\ Len(worldObjects) = 2
    /\ simCamera.made
    /\ rendered.op = "isScattered"
    /\ rendered.material = worldObjects[2].m_material

(***************************************************************************)
(* C27.  Under every interleaving of submitters and workers each task      *)
(* pushed to the queue of the pool is removed by at most one worker and    *)
(* executed at most once, the tasks leave the queue in the order they      *)
(* entered it (FIFO), and try_pop on an empty queue returns false and      *)
(* leaves its output argument as it was (the empty current_task).          *)
(***************************************************************************)
C27_QueueDiscipline ==
    /\ \A a, b \in 1 .. Len(popped) : popped[a] = popped[b] => a = b
    /\ \A t \in Tasks : executed[t] <= 1
    /\ Len(popped) <= Len(pushed)
    /\ \A n \in 1 .. Len(popped) : popped[n] = pushed[n]
    /\ \A w \in Threads :
          (tryResult[w] = "false" /\ wpc[w] = "loop")
             => current_task[w] = NoTask

\* The first of two pushed tasks was executed, a worker has removed the
\* second and is running it, and another worker has just found the queue
\* empty.
C27_Witness ==
    /\ Len(pushed) >= 2
    /\ executed[pushed[1]] = 1
    /\ \E w, v \in Threads :
          /\ w # v
          /\ wpc[w] = "run"
          /\ current_task[w] = pushed[2]
          /\ wpc[v] = "loop"
          /\ tryResult[v] = "false"

(***************************************************************************)
(* C28.  For a default-constructed thread_pool, whatever value             *)
(* hardware_concurrency() returned, every submitted task is eventually     *)
(* executed (and its future made ready) unless the pool is being           *)
(* destroyed, under fair scheduling.                                       *)
(***************************************************************************)
C28_EveryTaskRuns ==
    \A t \in Tasks :
       (created >= t /\ mainPc = "submit")
          ~> (executed[t] >= 1 \/ mainPc # "submit")

(***************************************************************************)
(* C30.  Destroying the pool always completes: once the destructor has     *)
(* begun, it returns; after m_done is set a worker finishes at most one    *)
(* task body (the task it was running or was about to pop); and once the   *)
(* workers have left their loops the tasks still queued stay queued and    *)
(* are never executed.                                                     *)
(***************************************************************************)
WorkersGone ==
    /\ m_done
    /\ \A w \in Threads : w <= m_threads => wpc[w] = "exited"

C30_DestructorCompletes ==
    /\ (mainPc = "destroy") ~> (mainPc = "exit")
    /\ [](\A w \in Threads : lateRuns[w] <= 1)
    /\ [](WorkersGone =>
            \A n \in 1 .. Len(m_queue) : executed[m_queue[n]] = 0)
    /\ [][WorkersGone => (executed' = executed /\ m_queue' = m_queue)]_vars

\* The destructor returned although a task is still queued, after a worker
\* finished a task body with m_done already set.
C30_Witness ==
    /\ mainPc = "exit"
    /\ m_queue # <<>>
    /\ \E w \in Threads : lateRuns[w] = 1

====
